---- MODULE Spec2Model ----
(***************************************************************************)
(* ArabicFile-Renamer: the per-identity daily upload quota tracker         *)
(* (FileUploadLimiter), the upload handlers that consult it, and the       *)
(* naming engine (OpenAIProvider.generate_filename).                       *)
(***************************************************************************)
EXTENDS Integers, Sequences, FiniteSets, TLC

(***************************************************************************)
(* Bounds of the model.  Time is counted in clock ticks; Day is the number *)
(* of ticks that make up timedelta(hours=24).                              *)
(***************************************************************************)
Day == 2
MaxTime == 3
MaxCount == 4
MaxEntries == 2
NumThreads == 2

MaxFiles == 4
MaxInFlight == 3

\* files[:3]
max_files_per_request == 3

\* FileUploadLimiter(max_files_per_day=3)
max_files_per_day == 3

\* FileUploadLimiter.enabled (constructor default)
enabled == TRUE

Threads == 1..NumThreads
Times == 0..MaxTime
\* file_count: the number of files of a non-empty batch
Counts == 1..MaxCount

\* Values of the user_id argument: missing (None), or an explicit id; the
\* upload handlers below also pass the empty string.
None == "None"
UserIdArgs == {None, "alice"}
\* Keys of the user_files mapping.
Identities == {"anonymous", "alice"}
\* threading.Lock(): value of `lock` when no thread holds it.
Unlocked == 0
\* get_remote_address(request): the network origins of the clients
Origins == {"203.0.113.5", "198.51.100.7"}
\* the user_id query parameter of /limit-status
QueryUserIds == {None, "", "alice"}
\* the user_id query parameter of the upload requests: they carry none (what
\* the tracker does with an explicit id is part of the tracker model above)
UploadUserIds == {None}
\* /upload and /upload/stream
Endpoints == {"batch", "stream"}
\* The two definitions of class FileUploadLimiter.
LimiterClasses == {"route", "tracking"}

VARIABLES
    limiterClass,   \* which FileUploadLimiter definition the tracker is
    now,            \* datetime.now()
    user_files,     \* FileUploadLimiter.user_files: identity -> [(ts, count)]
    accepted,       \* history: per identity, the entries accepted so far
                    \* whose timestamp is within the trailing 24 hours
    last,           \* the most recent tracker call and what it returned
    lock,           \* FileUploadLimiter.lock: the thread holding it, or Unlocked
    frame,          \* per thread: position and locals of the running method
    req,            \* per network origin: the upload request it has in flight
    charged,        \* history: per origin, the entries accepted for its
                    \* requests without user id, within the trailing 24 hours
    gen,            \* the generate_filename call in progress: its arguments,
                    \* what happened in it and what it gave its caller
    trunc,          \* the truncate_text call in progress and what it returned
    doc,            \* the process_document call in progress: its document,
                    \* its position, the OCR and detector calls it made and
                    \* what it gave its caller
    pool,           \* PytesseractOCR._executor: the calls waiting in its
                    \* queue and the calls its worker threads execute
    batch           \* the upload request being answered: its files, its
                    \* document tasks, their records and what was sent

handlerVars == <<req, charged>>
vars == <<limiterClass, now, user_files, accepted, last, lock, frame,
          handlerVars, gen, trunc, doc, pool, batch>>

----------------------------------------------------------------------------
(* FileUploadLimiter: pure helpers *)

\* Python truthiness of a user_id: `if not user_id`
Falsy(u) == u \in {None, ""}

Max(a, b) == IF a >= b THEN a ELSE b

Min(a, b) == IF a <= b THEN a ELSE b

\* the condition of the list comprehension of _clean_old_entries
FreshMut(ts, t) == ts > t - Day + 1
Fresh(ts, t) == ts > t - Day

\* _clean_old_entries: keep the (ts, count) with ts > now - 24h, in order
CleanOldMut(entries, t) == SelectSeq(entries, LAMBDA e : e.ts >= t - Day)
CleanOld(entries, t) == SelectSeq(entries, LAMBDA e : Fresh(e.ts, t))

\* sum(count for _, count in entries)
RECURSIVE Total(_)
Total(entries) ==
    IF entries = <<>> THEN 0
    ELSE Head(entries).count + Total(Tail(entries))

\* min(ts for ts, _ in entries) if entries else datetime.now()
OldestMut(entries, t) ==
    IF entries = <<>> THEN t ELSE entries[Len(entries)].ts
Oldest(entries, t) ==
    IF entries = <<>> THEN t
    ELSE CHOOSE m \in {entries[i].ts : i \in 1..Len(entries)} :
            \A i \in 1..Len(entries) : m <= entries[i].ts

\* total_uploaded + file_count > self.max_files
ExceedsMut(total, n) == total > max_files_per_day
Exceeds(total, n) == total + n > max_files_per_day

\* remaining = max(0, self.max_files - total_uploaded)
Remaining(total) == Max(0, max_files_per_day - total)

\* the identity a call is accounted under once the emptiness test is passed
EffectiveIdMut(cls, u) == IF Falsy(u) THEN "anonymous" ELSE u
EffectiveId(cls, u) == IF Falsy(u) /\ cls = "route" THEN "anonymous" ELSE u

\* the emptiness test raises ValueError (tracking class only)
RaisesOnEmpty(cls, u) == cls = "tracking" /\ Falsy(u)

\* the rejecting return value
RejectedRet(entries, n, t) ==
    [kind |-> "rejected", uploaded |-> Total(entries),
     remaining |-> Remaining(Total(entries)),
     reset_at |-> Oldest(entries, t) + Day]

\* the accepting return value
AcceptedRet(total, n) ==
    [kind |-> "accepted", uploaded |-> total + n,
     remaining |-> Remaining(total) - n, reset_at |-> 0]

\* the return value of get_stats
StatsRet(total) ==
    [kind |-> "stats", uploaded |-> total,
     remaining |-> Remaining(total), reset_at |-> 0]

\* the ValueError of the emptiness test
RaisedRet == [kind |-> "raised", uploaded |-> 0, remaining |-> 0,
              reset_at |-> 0]

\* _unlimited_response()
UnlimitedRet == [kind |-> "unlimited", uploaded |-> 0, remaining |-> 999,
                 reset_at |-> 0]

\* `last` records the call's arguments, the time `at` of its first
\* datetime.now(), the identity's sequence `before` the call, and the result.
NoCall == [op |-> "none", arg |-> None, user_id |-> None, file_count |-> 0,
           at |-> 0, before |-> <<>>, ret |-> RaisedRet]
IdleFrame == [pc |-> "idle", op |-> "none", user_id |-> None,
              file_count |-> 0, total_uploaded |-> 0]

\* the history of accepted entries, restricted to the trailing 24 hours
InWindow(entries, t) == SelectSeq(entries, LAMBDA e : t - e.ts < Day)

----------------------------------------------------------------------------
(* OpenAIProvider: strings and the sanitizing of file names.  A string is  *)
(* a sequence of characters, a character a one-letter string; AR stands    *)
(* for one Arabic letter, a word character (\w) outside ASCII.             *)

AR == "dad"
Whitespace == {" ", "\n"}
Quotes == {"\"", "'"}
DigitChars == <<"0", "1", "2", "3", "4", "5", "6", "7", "8", "9">>
UpperCase == {"A", "B", "D", "F", "P"}
LowerCase == {"a", "b", "c", "d", "e", "f", "g", "j", "m", "n", "o", "p",
              "t", "u", "x"}

\* str.lower() on one character
Lower(c) ==
    CASE c = "A" -> "a" [] c = "B" -> "b" [] c = "D" -> "d"
      [] c = "F" -> "f" [] c = "P" -> "p" [] OTHER -> c

\* the characters [^\w\-_] does not remove
KeptCharMut(c) == TRUE
KeptChar(c) ==
    \/ c \in UpperCase \cup LowerCase \cup {AR, "_", "-"}
    \/ \E i \in 1..Len(DigitChars) : c = DigitChars[i]

RECURSIVE LStrip(_, _)
LStrip(s, cs) ==
    IF s # <<>> /\ Head(s) \in cs THEN LStrip(Tail(s), cs) ELSE s

RECURSIVE RStrip(_, _)
RStrip(s, cs) ==
    IF s # <<>> /\ s[Len(s)] \in cs
    THEN RStrip(SubSeq(s, 1, Len(s) - 1), cs)
    ELSE s

\* str.strip(): cs is the set of characters removed at both ends
Strip(s, cs) == RStrip(LStrip(s, cs), cs)

LowerAll(s) == [i \in 1..Len(s) |-> Lower(s[i])]

EndsWith(s, suffix) ==
    /\ Len(s) >= Len(suffix)
    /\ SubSeq(s, Len(s) - Len(suffix) + 1, Len(s)) = suffix

\* the extensions of \.(pdf|png|jpg|jpeg)$
Extensions == {<<".", "p", "d", "f">>, <<".", "p", "n", "g">>,
               <<".", "j", "p", "g">>, <<".", "j", "p", "e", "g">>}

\* re.sub(r'\.(pdf|png|jpg|jpeg)$', '', filename, flags=re.IGNORECASE)
RemoveExtension(s) ==
    IF \E e \in Extensions : EndsWith(LowerAll(s), e)
    THEN LET e == CHOOSE x \in Extensions : EndsWith(LowerAll(s), x)
         IN  SubSeq(s, 1, Len(s) - Len(e))
    ELSE s

\* the longest name _clean_filename returns
max_name_length == 50

Document == <<"d", "o", "c", "u", "m", "e", "n", "t">>

\* OpenAIProvider._clean_filename
CleanFilename(filename) ==
    LET stripped == Strip(Strip(Strip(filename, Whitespace), Quotes), Whitespace)
        bare == RemoveExtension(stripped)
        underscored == [i \in 1..Len(bare) |->
                           IF bare[i] = " " THEN "_" ELSE bare[i]]
        word == SelectSeq(underscored, KeptChar)
        lowered == LowerAll(word)
        clamped == IF Len(lowered) > max_name_length
                   THEN SubSeq(lowered, 1, max_name_length)
                   ELSE lowered
    IN  IF clamped = <<>> THEN Document ELSE clamped

\* original_filename.rsplit('.', 1)[0] if '.' in original_filename
\* else original_filename
Stem(name) ==
    IF \E i \in 1..Len(name) : name[i] = "."
    THEN LET dot == CHOOSE i \in 1..Len(name) :
                        /\ name[i] = "."
                        /\ \A j \in (i + 1)..Len(name) : name[j] # "."
         IN  SubSeq(name, 1, dot - 1)
    ELSE name

\* datetime.now().strftime("%Y%m%d_%H%M%S") when the clock reads t seconds
\* after 2026-01-01 00:00:00
Stamp(t) ==
    <<"2", "0", "2", "6", "0", "1", "0", "1", "_", "0", "0",
      DigitChars[((t \div 600) % 6) + 1], DigitChars[((t \div 60) % 10) + 1],
      DigitChars[((t \div 10) % 6) + 1], DigitChars[(t % 10) + 1]>>

\* OpenAIProvider._fallback_filename at time t
FallbackFilename(original_filename, t) ==
    CleanFilename(Stem(original_filename)) \o <<"_">> \o Stamp(t)

\* the limits the provider is configured with: those of helpers/Config.py,
\* a total limit below the input limit, an input limit below the prompts
Limits ==
    {[max_input_tokens |-> 3000, max_output_tokens |-> 50, max_total_tokens |-> 4000],
     [max_input_tokens |-> 3000, max_output_tokens |-> 50, max_total_tokens |-> 2900],
     [max_input_tokens |-> 200, max_output_tokens |-> 50, max_total_tokens |-> 4000]}

\* self.langfuse: no client, a client that works, a client whose calls raise
LangfuseStates == {"off", "on", "failing"}

\* a name one character longer than _clean_filename lets through
LongName == [i \in 1..(max_name_length + 1) |-> "a"]

\* original file names
Filenames ==
    {LongName \o <<".", "p", "d", "f">>,
     <<>>, <<"x">>, <<"a", ".", "p", "d", "f">>,
     <<"A", " ", "b", ".", "P", "D", "F">>, <<".", "p", "d", "f">>,
     <<"a", ".", "b", ".", "t", "x", "t">>, <<AR, "-", "1", ".", "p", "n", "g">>}

\* texts the model answers with
Contents ==
    {LongName,
     <<>>, <<" ">>, <<"!">>, <<"a", "_", "b">>,
     <<"\"", "A", " ", "b", ".", "p", "d", "f", "\"", "\n">>, <<AR, "_", "1">>}

\* the number of tokens of the extracted text
TextTokens == {0, 100, 3500}

\* the max_tokens argument; 0 stands for None (both are falsy)
MaxTokensArgs == {0, 1200}

\* by how much the token count of a concatenation differs from the sum of
\* the token counts of its parts
Joints == {-1, 0, 1}

\* count_tokens(self.system_prompt)
SystemPromptTokens == 200

\* count_tokens of the fixed words of the prompt template and the language
TemplateBaseTokens == 25

\* count_tokens(prompt_template.replace("{text}", ""))
TemplateTokens(original_filename) == TemplateBaseTokens + Len(original_filename)

\* the tokens kept free in available_tokens
ReservedTokens == 100

\* the least max_text_tokens
MinTextTokens == 100

\* truncate_text on token counts: the tokens of the text it returns
KeptTokensMut(text_tokens, max_text_tokens) == text_tokens
KeptTokens(text_tokens, max_text_tokens) == Min(text_tokens, max_text_tokens)

\* the budget guard
OverBudgetMut(total_input_tokens, limits) == FALSE
OverBudget(total_input_tokens, limits) ==
    total_input_tokens + limits.max_output_tokens > limits.max_total_tokens

\* what the awaited chat.completions.create can do
NoResponse ==
    [kind |-> "none", choices |-> 0, has_content |-> FALSE, content |-> <<>>,
     usage |-> FALSE]

Responses ==
    {[NoResponse EXCEPT !.kind = k] :
         k \in {"APIError", "APITimeoutError", "CancelledError"}}
    \cup {[NoResponse EXCEPT !.kind = "response", !.choices = c, !.usage = u] :
              c \in {0, 1}, u \in BOOLEAN}
    \cup {[kind |-> "response", choices |-> 1, has_content |-> TRUE,
           content |-> c, usage |-> u] : c \in Contents, u \in BOOLEAN}

\* what `except Exception` catches
IsExceptionMut(exc) == exc \in {"APIError", "APITimeoutError"}
IsException(exc) == exc # "CancelledError"

ZeroUsage == [input_tokens |-> 0, output_tokens |-> 0, total_tokens |-> 0]

\* response.usage of a response to a request of `input` tokens
ProviderUsage(input, max_output) ==
    [input_tokens |-> input, output_tokens |-> Min(max_output, 5),
     total_tokens |-> input + Min(max_output, 5)]

\* no generate_filename call in progress
IdleGen ==
    [pc |-> "idle", limits |-> CHOOSE l \in Limits : TRUE, langfuse |-> "off",
     original_filename |-> <<>>, at |-> 0, path |-> "none", exc |-> "none",
     called |-> FALSE, response |-> NoResponse, kept_tokens |-> 0,
     total_input_tokens |-> 0, max_output |-> 0, filename |-> <<>>,
     usage |-> ZeroUsage]

\* the exception exc is raised inside the outer try of generate_filename at
\* time t, usage_data being `usage`
Except(g, exc, usage, t) ==
    IF IsException(exc)
    THEN [g EXCEPT !.pc = "returned", !.exc = exc, !.usage = usage,
                   !.filename = FallbackFilename(g.original_filename, t)]
    ELSE [g EXCEPT !.pc = "raised", !.exc = exc]

\* OpenAIProvider.generate_filename called at time t: the record of the
\* call.  The tracing calls are each in a try of their own, whatever they
\* do changes nothing of the result.
GenerateFilename(limits, langfuse, original_filename, text_tokens, max_tokens, joint, tokenizer_fails, response, t) ==
    LET g0 == [IdleGen EXCEPT !.limits = limits, !.langfuse = langfuse,
                              !.original_filename = original_filename,
                              !.at = t]
        max_output == IF max_tokens # 0 THEN max_tokens
                      ELSE limits.max_output_tokens
        system_tokens == SystemPromptTokens
        available_tokens == limits.max_input_tokens - system_tokens
                            - ReservedTokens
        template_tokens == TemplateTokens(original_filename)
        max_text_tokens == Max(available_tokens - template_tokens,
                               MinTextTokens)
        kept == KeptTokens(text_tokens, max_text_tokens)
        total_input_tokens == system_tokens + template_tokens + kept + joint
        g1 == [g0 EXCEPT !.kept_tokens = kept,
                         !.total_input_tokens = total_input_tokens,
                         !.max_output = max_output]
        usage_data == IF response.usage
                      THEN ProviderUsage(total_input_tokens, max_output)
                      ELSE ZeroUsage
    IN  IF tokenizer_fails
        THEN Except([g0 EXCEPT !.path = "tokenizer"], "ValueError", ZeroUsage, t)
        ELSE IF OverBudget(total_input_tokens, limits)
        THEN [g1 EXCEPT !.pc = "returned", !.path = "guard",
                        !.filename = FallbackFilename(original_filename, t)]
        ELSE LET g2 == [g1 EXCEPT !.called = TRUE, !.response = response]
             IN  IF response.kind # "response"
                 THEN Except([g2 EXCEPT !.path = "provider"], response.kind,
                             ZeroUsage, t)
                 ELSE IF response.choices = 0
                 THEN Except([g2 EXCEPT !.path = "no_choices"], "IndexError",
                             usage_data, t)
                 ELSE IF ~response.has_content
                 THEN Except([g2 EXCEPT !.path = "none_content"],
                             "AttributeError", usage_data, t)
                 ELSE [g2 EXCEPT !.pc = "returned", !.path = "generated",
                                 !.usage = usage_data,
                                 !.filename = CleanFilename(
                                     Strip(response.content, Whitespace))]

----------------------------------------------------------------------------
(* OpenAIProvider.truncate_text and the tokenizer.  A text is encoded to   *)
(* bytes (an Arabic letter is two bytes) and the bytes are cut into tokens *)
(* of the vocabulary, the longest first; decoding joins the bytes of the   *)
(* tokens and reads them back as characters, an incomplete character      *)
(* becoming the replacement character.                                     *)

MaxTextLen == 4
MaxLimit == 4

TextChars == {"a", "b", AR}
Texts == UNION {[1..n -> TextChars] : n \in 0..MaxTextLen}
TokenLimits == 0..MaxLimit

\* the replacement character U+FFFD
Replacement == "?"

\* str.encode("utf-8") of one character
Utf8(c) == IF c = AR THEN <<"d8", "b6">> ELSE <<c>>

RECURSIVE ToBytes(_)
ToBytes(text) ==
    IF text = <<>> THEN <<>> ELSE Utf8(Head(text)) \o ToBytes(Tail(text))

\* bytes.decode("utf-8", errors="replace")
RECURSIVE FromBytes(_)
FromBytes(bytes) ==
    IF bytes = <<>> THEN <<>>
    ELSE IF Len(bytes) >= 2 /\ SubSeq(bytes, 1, 2) = Utf8(AR)
    THEN <<AR>> \o FromBytes(SubSeq(bytes, 3, Len(bytes)))
    ELSE IF Head(bytes) \in {"d8", "b6"}
    THEN <<Replacement>> \o FromBytes(Tail(bytes))
    ELSE <<Head(bytes)>> \o FromBytes(Tail(bytes))

\* the tokens of the tokenizer: byte sequences
Vocabulary == {<<"a">>, <<"b">>, <<"d8">>, <<"b6">>, <<"a", "b">>,
               <<"b", "a">>, <<"a", "b", "a">>}

\* the length of the longest token the bytes start with
LongestToken(bytes) ==
    CHOOSE n \in 1..Len(bytes) :
        /\ SubSeq(bytes, 1, n) \in Vocabulary
        /\ \A k \in (n + 1)..Len(bytes) : SubSeq(bytes, 1, k) \notin Vocabulary

RECURSIVE Tokenize(_)
Tokenize(bytes) ==
    IF bytes = <<>> THEN <<>>
    ELSE <<SubSeq(bytes, 1, LongestToken(bytes))>>
         \o Tokenize(SubSeq(bytes, LongestToken(bytes) + 1, Len(bytes)))

\* self.tokenizer.encode(text)
Encode(text) == Tokenize(ToBytes(text))

RECURSIVE Concat(_)
Concat(tokens) ==
    IF tokens = <<>> THEN <<>> ELSE Head(tokens) \o Concat(Tail(tokens))

\* self.tokenizer.decode(tokens)
Decode(tokens) == FromBytes(Concat(tokens))

\* tokens[:max_tokens], max_tokens >= 0
SliceMut(tokens, max_tokens) ==
    SubSeq(tokens, Len(tokens) - Min(max_tokens, Len(tokens)) + 1, Len(tokens))
Slice(tokens, max_tokens) == SubSeq(tokens, 1, Min(max_tokens, Len(tokens)))

\* OpenAIProvider.truncate_text: the text returned and the tokens kept
TruncateText(text, max_tokens) ==
    LET tokens == Encode(text)
    IN  IF Len(tokens) <= max_tokens
        THEN [text |-> text, tokens |-> tokens]
        ELSE [text |-> Decode(Slice(tokens, max_tokens)),
              tokens |-> Slice(tokens, max_tokens)]

\* no truncate_text call in progress
IdleTrunc ==
    [pc |-> "idle", text |-> <<>>, max_tokens |-> 0, returned |-> <<>>,
     kept |-> <<>>]

----------------------------------------------------------------------------
(* DataController: the classification of a document and its extraction.    *)

MaxPages == 2

\* file.content_type
ContentTypes == {"image/png", "image/jpg", "image/jpeg", "image/gif",
                 "application/pdf", "text/plain"}

\* the content types process_document sends to OCR directly
ImageTypes == {"image/png", "image/jpg", "image/jpeg"}

\* a text of n letters
Letters(n) == [i \in 1..n |-> "x"]

\* the least number of characters, whitespace removed, of a digital text
ScanThreshold == 100

\* the least length of a stripped text the detector is asked about
MinDetectChars == 10

\* the text layers of the PDF documents, as fitz gives them
TextLayers ==
    {<<>>, <<" ", "\n">>, Letters(ScanThreshold - 1),
     Letters(50) \o <<" ", "\n">> \o Letters(ScanThreshold - 51),
     Letters(ScanThreshold),
     <<" ">> \o Letters(60) \o <<"\n">> \o Letters(40) \o <<"\n">>}

\* the texts the OCR engine reads on a page, stripped
PageTexts ==
    {<<>>, <<"a">>, <<"a", "\n", "b">>, Letters(MinDetectChars),
     <<"a", " ", "b", " ", "c", " ", "d", " ", "e", " ", "f">>}

\* what langdetect's detect answers, or that it raises
DetectorAnswers == {"en", "ar", "fr", "raise"}

\* DataController.extract_text_from_pdf
ExtractTextFromPdf(layer) == Strip(layer, Whitespace)

IsWhitespace(c) == c \in Whitespace
NotWhitespace(c) == ~IsWhitespace(c)

\* DataController.is_scanned_pdf
IsScannedPdfMut(text) == Len(text) < ScanThreshold
IsScannedPdf(text) ==
    IF text = <<>> THEN TRUE
    ELSE Len(SelectSeq(text, NotWhitespace)) < ScanThreshold

\* self.lang_map.get(detected_lang, "eng")
LangMapGet(code) ==
    CASE code = "en" -> "eng" [] code = "ar" -> "ara" [] OTHER -> "eng"

\* DataController.detect_language: the code returned and whether detect()
\* was called
DetectLanguage(text, answer) ==
    IF text = <<>> \/ Len(Strip(text, Whitespace)) < MinDetectChars
    THEN [language |-> "eng", called |-> FALSE]
    ELSE IF answer = "raise"
    THEN [language |-> "eng", called |-> TRUE]
    ELSE [language |-> LangMapGet(answer), called |-> TRUE]

\* "\n\n".join(full_text_parts)
RECURSIVE JoinPartsMut(_)
JoinPartsMut(parts) ==
    IF parts = <<>> THEN <<>> ELSE Head(parts) \o JoinPartsMut(Tail(parts))
RECURSIVE JoinParts(_)
JoinParts(parts) ==
    IF parts = <<>> THEN <<>>
    ELSE IF Len(parts) = 1 THEN parts[1]
    ELSE parts[1] \o <<"\n", "\n">> \o JoinParts(Tail(parts))

\* what the `except Exception` of the full pass puts for a failed page
FailedPageText == <<>>

NoResult == [text |-> <<>>, language |-> "none", is_scanned |-> FALSE, pages |-> 0]

\* no process_document call in progress
IdleDoc ==
    [pc |-> "idle", content_type |-> "none", path |-> "none", images |-> 0,
     is_image |-> FALSE, extracted |-> <<>>, language |-> "none", idx |-> 0,
     parts |-> <<>>, started |-> <<>>, ocr_log |-> <<>>, detect_calls |-> 0,
     detect_text |-> <<>>, detect_answer |-> "none", exc |-> "none",
     result |-> NoResult]

\* detect_language(text) has decided the language: what it was given, and
\* what detect() answered when it was called
Detected(d, text, answer) ==
    LET r == DetectLanguage(text, answer)
    IN  [d EXCEPT !.language = r.language,
                  !.detect_calls = @ + (IF r.called THEN 1 ELSE 0),
                  !.detect_text = text,
                  !.detect_answer = IF r.called THEN answer ELSE "none"]

\* the content types of the PDF branch
IsPdfMut(content_type) == content_type \in {"application/pdf", "text/plain"}
IsPdf(content_type) == content_type = "application/pdf"

\* the content types of the OCR branch
SentToOcrMut(content_type) == content_type = "image/png"
SentToOcr(content_type) == content_type \in ImageTypes

\* process_document up to its first await of the OCR service, or to its
\* return or its exception when it comes to none
ProcessDocument(content_type, corrupt, layer, pages, rasterized, answer) ==
    LET d0 == [IdleDoc EXCEPT !.content_type = content_type]
    IN  IF SentToOcr(content_type)
        THEN [d0 EXCEPT !.pc = "sample", !.path = "image", !.images = 1,
                        !.is_image = TRUE]
        ELSE IF IsPdf(content_type)
        THEN IF corrupt
             THEN [d0 EXCEPT !.pc = "raised", !.path = "pdf", !.exc = "pdf"]
             ELSE LET text == ExtractTextFromPdf(layer)
                      d1 == [d0 EXCEPT !.extracted = text]
                  IN  IF ~IsScannedPdf(text)
                      THEN LET d2 == Detected(d1, text, answer)
                           IN  [d2 EXCEPT !.pc = "returned", !.path = "digital",
                                          !.result = [text |-> text,
                                                      language |-> d2.language,
                                                      is_scanned |-> FALSE,
                                                      pages |-> pages]]
                      ELSE IF ~rasterized
                      THEN [d1 EXCEPT !.pc = "raised", !.path = "scanned",
                                      !.exc = "rasterize"]
                      ELSE [d1 EXCEPT !.pc = "sample", !.path = "scanned",
                                      !.images = pages]
        ELSE [d0 EXCEPT !.pc = "raised", !.path = "unsupported",
                        !.exc = "unsupported"]

\* the language hint of the full pass
FullPassLangMut(d) == "eng+ara"
FullPassLang(d) == d.language

\* await self.ocr_service.extract_text(...): the call is handed to the
\* executor, with its page and its language hint
Submitted(d) ==
    [d EXCEPT !.started = Append(@,
        IF d.pc = "sample"
        THEN [pass |-> "sample", page |-> 1, lang |-> "eng+ara"]
        ELSE [pass |-> "full", page |-> d.idx, lang |-> FullPassLang(d)])]

\* the OCR call the document waits for
Awaited(d) == d.started[Len(d.started)]

\* an OCR call: which pass, which page, the language hint, whether the
\* engine worked and what it read
OcrCall(pass, page, lang, ok, text) ==
    [pass |-> pass, page |-> page, lang |-> lang, ok |-> ok,
     text |-> IF ok THEN text ELSE <<>>]

\* _process_scanned_document from the sample call on the first page to the
\* language decision
SamplePassOf(d, ok, text, answer) ==
    LET logged == [d EXCEPT !.ocr_log =
                       Append(@, OcrCall("sample", Awaited(d).page,
                                         Awaited(d).lang, ok, text))]
    IN  IF ~ok
        THEN [logged EXCEPT !.pc = "raised", !.exc = "ocr"]
        ELSE [Detected(logged, text, answer)
                  EXCEPT !.pc = "full", !.idx = 1]

\* the result of the scanned path
ScannedResult(d, parts) ==
    [text |-> Strip(JoinParts(parts), Whitespace), language |-> d.language,
     is_scanned |-> TRUE,
     pages |-> IF d.is_image THEN 1 ELSE d.images]

\* one turn of the loop of the full pass, and after the last one the join
\* and the return
FullPassOf(d, ok, text) ==
    LET parts == Append(d.parts, IF ok THEN text ELSE FailedPageText)
        logged == [d EXCEPT !.parts = parts, !.idx = @ + 1, !.ocr_log =
                      Append(@, OcrCall("full", Awaited(d).page,
                                        Awaited(d).lang, ok, text))]
    IN  IF d.idx < d.images
        THEN logged
        ELSE [logged EXCEPT !.pc = "returned",
                            !.result = ScannedResult(d, parts)]

----------------------------------------------------------------------------
(* PytesseractOCR: the executor all OCR calls go through.  There is one     *)
(* OCR service in the process (route.py creates one DataController), and   *)
(* every document coroutine hands its calls to the service's              *)
(* ThreadPoolExecutor and waits for the result.                            *)

\* the document coroutines that call extract_text
NumCallers == 5
Callers == 1..NumCallers

\* ThreadPoolExecutor(max_workers=4)
max_workers == 4

\* no OCR call submitted
IdlePool == [queue |-> <<>>, running |-> {}]

\* the callers with a call in the queue
Queued(p) == {p.queue[i] : i \in 1..Len(p.queue)}

\* the callers whose call a thread executes
Executing(p) == {c.caller : c \in p.running}

\* the thread that executes a call handed to run_in_executor
RunsOnMut(p) == "event loop"
RunsOn(p) == "worker"

\* a worker thread is idle, or the pool may still start one
WorkerFreeMut(p) == TRUE
WorkerFree(p) == Cardinality(p.running) < max_workers

\* loop.run_in_executor(self._executor, self._extract_text_sync, ...): the
\* call joins the queue of the executor
RunInExecutor(p, c) == [p EXCEPT !.queue = Append(@, c)]

\* a worker thread takes the call at the head of the queue and runs
\* _extract_text_sync
Dequeue(p) ==
    [p EXCEPT !.queue = Tail(@),
              !.running = @ \cup {[caller |-> Head(p.queue), thread |-> RunsOn(p)]}]

\* _extract_text_sync has returned or raised: the future of the call is
\* done and its worker is idle again
Release(p, c) == [p EXCEPT !.running = {x \in @ : x.caller # c}]

----------------------------------------------------------------------------
(* route.py: one upload request and its document tasks.  A document task   *)
(* is process_single_file; what process_document and Renamer do inside is  *)
(* modelled above, here they end in one of their outcomes.                 *)

\* file.filename of the uploaded files: the second file of a request is
\* "b", the others are all "a.pdf"
BatchName(i) == IF i = 2 THEN <<"b">> ELSE <<"a", ".", "p", "d", "f">>

\* the files of a request
FileLists == {[i \in 1..n |-> BatchName(i)] : n \in 1..MaxFiles}

\* files[:3]
FilesToProcessOf(files) == SubSeq(files, 1, Min(Len(files), max_files_per_request))

\* how process_document ends: with a result, with a result after a failed
\* page of the full pass, or with the exception of the PDF parser, of the
\* rasterizer or of the sample OCR call
ExtractOutcomes == {"ok", "ocr_page", "corrupt", "rasterize", "ocr_sample"}

\* why generate_filename returns the fallback name: the budget guard, or
\* an error of the provider
FallbackReasons == {"budget", "provider"}

\* the sanitized name the model generated
GeneratedName == <<"a", "_", "b">>

\* file.filename.rsplit('.', 1)[-1] if '.' in file.filename else 'pdf'
ExtensionOf(name) ==
    IF \E i \in 1..Len(name) : name[i] = "."
    THEN SubSeq(name, Len(Stem(name)) + 2, Len(name))
    ELSE <<"p", "d", "f">>

\* the record of a document; `file` is the position of the file the task
\* was created for, `cause` what failed while it was processed
NoRecord ==
    [file |-> 0, original_filename |-> <<>>, status |-> "none",
     error_type |-> "none", new_filename |-> <<>>, fallback |-> FALSE,
     cause |-> "none"]

ErrorRecord(i, name, error_type, cause) ==
    [NoRecord EXCEPT !.file = i, !.original_filename = name,
                     !.status = "error", !.error_type = error_type,
                     !.cause = cause]

SuccessRecord(i, name, new_name, fallback, cause) ==
    [NoRecord EXCEPT !.file = i, !.original_filename = name,
                     !.status = "success",
                     !.new_filename = new_name \o <<".">> \o ExtensionOf(name),
                     !.fallback = fallback, !.cause = cause]

\* a document task not yet created
NoTask == [pc |-> "none", cause |-> "none", record |-> NoRecord]

\* the failures the `except Exception` of process_single_file catches
HandledMut(cause) == cause # "rasterize"
Handled(cause) == TRUE

\* the task of file i fails with `cause` inside the try
TaskFails(task, i, name, cause) ==
    IF Handled(cause)
    THEN [task EXCEPT !.pc = "done", !.cause = cause,
                      !.record = ErrorRecord(i, name, "processing", cause)]
    ELSE [task EXCEPT !.pc = "raised", !.cause = cause]

\* process_single_file up to its first await: validate_file
Validated(task, i, name, valid) ==
    IF valid THEN [task EXCEPT !.pc = "extract"]
    ELSE [task EXCEPT !.pc = "done", !.cause = "validation",
                      !.record = ErrorRecord(i, name, "validation", "validation")]

\* process_single_file when the await of process_document ends
Extracted(task, i, name, outcome) ==
    IF outcome = "ok" THEN [task EXCEPT !.pc = "naming"]
    ELSE IF outcome = "ocr_page"
    THEN [task EXCEPT !.pc = "naming", !.cause = "ocr_page"]
    ELSE TaskFails(task, i, name, outcome)

\* process_single_file when the await of Renamer ends, at time t
Named(task, i, name, outcome, t) ==
    IF outcome = "generated"
    THEN [task EXCEPT !.pc = "done",
                      !.record = SuccessRecord(i, name, GeneratedName, FALSE,
                                               task.cause)]
    ELSE [task EXCEPT !.pc = "done", !.cause = "naming",
                      !.record = SuccessRecord(i, name,
                                               FallbackFilename(name, t),
                                               TRUE, "naming")]

\* no upload request being answered.  Of a request: its endpoint, its
\* files[:3], whether the quota check let it pass, its document tasks, the
\* positions of the finished tasks in the order they finished, the events
\* sent so far (streaming) and the JSON answer (batch)
NoAnswer == [total |-> 0, successful |-> 0, failed |-> 0, results |-> <<>>]
IdleBatch ==
    [pc |-> "idle", kind |-> "batch", files |-> <<>>, allowed |-> FALSE,
     tasks |-> <<>>, order |-> <<>>, events |-> <<>>, answer |-> NoAnswer]

\* the tasks of the request are created
WithTasks(b) == [b EXCEPT !.tasks = [i \in 1..Len(b.files) |->
                                         [NoTask EXCEPT !.pc = "start"]]]

\* the number of 'result' events sent
Emitted(b) == Len(SelectSeq(b.events, LAMBDA e : e.type = "result"))

\* asyncio.as_completed: the task whose result the next `await coro` gives
NextCompletedMut(b) == Emitted(b) + 1
NextCompleted(b) == b.order[Emitted(b) + 1]

\* asyncio.gather: the results in the order of the tasks
GatherMut(b) == [k \in 1..Len(b.order) |-> b.tasks[b.order[k]].record]
Gather(b) == [i \in 1..Len(b.tasks) |-> b.tasks[i].record]

\* sum(1 for r in results if r["status"] == "success")
SuccessCount(results) ==
    Len(SelectSeq(results, LAMBDA r : r.status = "success"))

\* the content of the JSON response of upload_file
Answer(results) ==
    [total |-> Len(results), successful |-> SuccessCount(results),
     failed |-> Len(results) - SuccessCount(results), results |-> results]

----------------------------------------------------------------------------
(* FileUploadLimiter: one call as one step (the calls are serialized by    *)
(* self.lock).  d is the time that passes between the datetime.now() of    *)
(* _clean_old_entries and the later datetime.now() of the same call.       *)

InitLimiter ==
    /\ limiterClass \in LimiterClasses
    /\ now = 0
    /\ user_files = [k \in Identities |-> <<>>]
    /\ accepted = [k \in Identities |-> <<>>]
    /\ lock = Unlocked
    /\ frame = [p \in Threads |-> IdleFrame]

\* no upload request in flight.  Of a request: where its handler is, its
\* endpoint and user_id, the number of files passed to check_and_increment,
\* the answer and the number of calls made, the statuses of its document
\* tasks; and as history, by how much the call made the identity's total
\* grow (`grown`) and how much of its quota the origin itself had used when
\* it was rejected (`own_used`)
IdleReq == [pc |-> "idle", kind |-> "batch", user_id |-> None,
            requested |-> 0, allowed |-> FALSE, checks |-> 0, grown |-> 0,
            own_used |-> 0, tasks |-> <<>>]

InitHandlers ==
    /\ req = [o \in Origins |-> IdleReq]
    /\ charged = [o \in Origins |-> <<>>]
    /\ gen = IdleGen
    /\ pool = IdlePool
    /\ batch = IdleBatch
    /\ doc = IdleDoc
    /\ trunc = IdleTrunc

Init ==
    /\ InitLimiter
    /\ InitHandlers
    /\ last = NoCall

\* the clock advances between two calls
Tick ==
    /\ now < MaxTime
    /\ now' = now + 1
    /\ accepted' = [k \in Identities |-> InWindow(accepted[k], now')]
    /\ UNCHANGED <<batch, pool, doc, trunc, gen, handlerVars, limiterClass, user_files, last, lock, frame>>

\* what the rejecting branch of check_and_increment leaves in the sequence
\* of the identity: the pruned sequence, nothing appended
RejectedEntriesMut(pruned, n, t2) == Append(pruned, [ts |-> t2, count |-> n])
RejectedEntries(pruned, n, t2) == pruned

\* What one call of check_and_increment does to the mapping uf and what it
\* returns; t1 is the datetime.now() of _clean_old_entries, t2 the later
\* datetime.now() of the same call.
CheckAndIncrement(cls, uf, u, n, t1, t2) ==
    IF cls = "tracking" /\ ~enabled
    THEN [user_files |-> uf, ret |-> UnlimitedRet]
    ELSE IF RaisesOnEmpty(cls, u)
    THEN [user_files |-> uf, ret |-> RaisedRet]
    ELSE LET k == EffectiveId(cls, u)
             pruned == CleanOld(uf[k], t1)
             total == Total(pruned)
         IN  IF Exceeds(total, n)
             THEN [user_files |-> [uf EXCEPT ![k] = RejectedEntries(pruned, n, t2)],
                   ret |-> RejectedRet(pruned, n, t2)]
             ELSE [user_files |->
                      [uf EXCEPT ![k] =
                          Append(pruned, [ts |-> t2, count |-> n])],
                   ret |-> AcceptedRet(total, n)]

\* What one call of get_stats does to the mapping uf and what it returns.
GetStats(cls, uf, u, t) ==
    IF cls = "tracking" /\ ~enabled
    THEN [user_files |-> uf, ret |-> UnlimitedRet]
    ELSE IF RaisesOnEmpty(cls, u)
    THEN [user_files |-> uf, ret |-> RaisedRet]
    ELSE LET k == EffectiveId(cls, u)
             pruned == CleanOld(uf[k], t)
         IN  [user_files |-> [uf EXCEPT ![k] = pruned],
              ret |-> StatsRet(Total(pruned))]

\* the sequence of identity k is within the bound of the model
WithinEntries(uf) == \A k \in Identities : Len(uf[k]) <= MaxEntries

check_and_increment(u, n, d) ==
    /\ now + d <= MaxTime
    /\ LET k == EffectiveId(limiterClass, u)
           raises == RaisesOnEmpty(limiterClass, u)
           res == CheckAndIncrement(limiterClass, user_files, u, n,
                                    now, now + d)
       IN  /\ raises => d = 0
           /\ WithinEntries(res.user_files)
           /\ user_files' = res.user_files
           /\ now' = now + d
           /\ accepted' = [i \in Identities |->
                 InWindow(IF i = k /\ res.ret.kind = "accepted"
                          THEN Append(accepted[i], [ts |-> now', count |-> n])
                          ELSE accepted[i], now')]
           /\ last' = [op |-> "check_and_increment", arg |-> u,
                       user_id |-> k, file_count |-> n, at |-> now,
                       before |-> IF raises THEN <<>> ELSE user_files[k],
                       ret |-> res.ret]
    /\ UNCHANGED <<batch, pool, doc, trunc, gen, handlerVars, limiterClass, lock, frame>>

get_stats(u) ==
    /\ LET k == EffectiveId(limiterClass, u)
           raises == RaisesOnEmpty(limiterClass, u)
           res == GetStats(limiterClass, user_files, u, now)
       IN  /\ user_files' = res.user_files
           /\ last' = [op |-> "get_stats", arg |-> u, user_id |-> k,
                       file_count |-> 0, at |-> now,
                       before |-> IF raises THEN <<>> ELSE user_files[k],
                       ret |-> res.ret]
    /\ UNCHANGED <<batch, pool, doc, trunc, gen, handlerVars, limiterClass, now, accepted, lock, frame>>

Next ==
    \/ Tick
    \/ \E u \in UserIdArgs, n \in Counts, d \in 0..1 :
          check_and_increment(u, n, d)
    \/ \E u \in UserIdArgs : get_stats(u)

Spec == Init /\ [][Next]_vars

----------------------------------------------------------------------------
(* FileUploadLimiter called from several threads: each statement of the    *)
(* `with self.lock:` block is a step of its own, and the clock may advance *)
(* between any two steps.                                                  *)

\* the calls in flight that may still append to identity k
Pending(k) ==
    Cardinality({q \in Threads : /\ frame[q].op = "check_and_increment"
                                 /\ frame[q].pc # "idle"
                                 /\ frame[q].user_id = k})

\* the identity all threads call the tracker for
ContendedId == "alice"

\* `with self.lock:` can be entered
LockAvailableMut(p) == TRUE
LockAvailable(p) == lock = Unlocked

\* the clock advances
TickThreads ==
    /\ now < MaxTime
    /\ now' = now + 1
    /\ accepted' = [k \in Identities |-> InWindow(accepted[k], now')]
    /\ UNCHANGED <<batch, pool, doc, trunc, gen, handlerVars, limiterClass, user_files, last, lock, frame>>

\* a thread calls check_and_increment or get_stats and reaches the
\* `with self.lock:` statement, unless the emptiness test raises
CallLimiter(p, op, u, n) ==
    /\ frame[p].pc = "idle"
    /\ ~(limiterClass = "tracking" /\ ~enabled)
    /\ ~RaisesOnEmpty(limiterClass, u)
    /\ LET k == EffectiveId(limiterClass, u)
       IN  /\ op = "check_and_increment" =>
                Len(user_files[k]) + Pending(k) < MaxEntries
           /\ frame' = [frame EXCEPT ![p] =
                  [pc |-> "lock", op |-> op, user_id |-> k,
                   file_count |-> IF op = "get_stats" THEN 0 ELSE n,
                   total_uploaded |-> 0]]
    /\ UNCHANGED <<batch, pool, doc, trunc, gen, handlerVars, limiterClass, now, user_files, accepted, last, lock>>

\* `with self.lock:` is entered
AcquireLock(p) ==
    /\ frame[p].pc = "lock"
    /\ LockAvailable(p)
    /\ lock' = p
    /\ frame' = [frame EXCEPT ![p].pc = "clean"]
    /\ UNCHANGED <<batch, pool, doc, trunc, gen, handlerVars, limiterClass, now, user_files, accepted, last>>

\* self._clean_old_entries(user_id)
CleanEntries(p) ==
    /\ frame[p].pc = "clean"
    /\ user_files' = [user_files EXCEPT ![frame[p].user_id] =
                        CleanOld(@, now)]
    /\ frame' = [frame EXCEPT ![p].pc = "sum"]
    /\ UNCHANGED <<batch, pool, doc, trunc, gen, handlerVars, limiterClass, now, accepted, last, lock>>

\* total_uploaded = sum(...), the comparison, and the rejecting return of
\* check_and_increment or the return of get_stats (both release the lock)
SumEntries(p) ==
    /\ frame[p].pc = "sum"
    /\ LET total == Total(user_files[frame[p].user_id])
       IN  IF frame[p].op = "get_stats" \/ Exceeds(total, frame[p].file_count)
           THEN /\ frame' = [frame EXCEPT ![p] = IdleFrame]
                /\ lock' = Unlocked
           ELSE /\ frame' = [frame EXCEPT ![p].pc = "append",
                                          ![p].total_uploaded = total]
                /\ lock' = lock
    /\ UNCHANGED <<batch, pool, doc, trunc, gen, handlerVars, limiterClass, now, user_files, accepted, last>>

\* self.user_files[user_id].append((datetime.now(), file_count)) and the
\* accepting return, which releases the lock
AppendEntry(p) ==
    /\ frame[p].pc = "append"
    /\ LET k == frame[p].user_id
           e == [ts |-> now, count |-> frame[p].file_count]
       IN  /\ user_files' = [user_files EXCEPT ![k] = Append(@, e)]
           /\ accepted' = [accepted EXCEPT ![k] = Append(@, e)]
    /\ frame' = [frame EXCEPT ![p] = IdleFrame]
    /\ lock' = Unlocked
    /\ UNCHANGED <<batch, pool, doc, trunc, gen, handlerVars, limiterClass, now, last>>

NextThreads ==
    \/ TickThreads
    \/ \E p \in Threads, n \in Counts :
          CallLimiter(p, "check_and_increment", ContendedId, n)
    \/ \E p \in Threads : CallLimiter(p, "get_stats", ContendedId, 0)
    \/ \E p \in Threads : AcquireLock(p)
    \/ \E p \in Threads : CleanEntries(p)
    \/ \E p \in Threads : SumEntries(p)
    \/ \E p \in Threads : AppendEntry(p)

SpecThreads == Init /\ [][NextThreads]_vars

----------------------------------------------------------------------------
(* The upload handlers of route.py.  They run on one event loop: the code  *)
(* of a handler or of a document task between two awaits is one step.      *)

\* len(files[:3])
FilesToProcess(nfiles) == Min(nfiles, max_files_per_request)

\* `if not allowed:` is not taken, so the document tasks are created
StartsTasksMut(allowed) == TRUE
StartsTasks(allowed) == allowed

\* a finished document task: the status of the record it returned
TaskDone(t) == t \in {"validation_error", "processing_error", "success"}

\* the number of document tasks of the requests being processed
InFlight ==
    Cardinality({<<o, i>> \in Origins \X (1..max_files_per_request) :
                        req[o].pc = "processing" /\ i <= req[o].requested})

InitUpload ==
    /\ limiterClass = "route"
    /\ now = 0
    /\ user_files = [k \in Identities |-> <<>>]
    /\ accepted = [k \in Identities |-> <<>>]
    /\ last = NoCall
    /\ lock = Unlocked
    /\ frame = [p \in Threads |-> IdleFrame]
    /\ InitHandlers

TickUpload ==
    /\ now < MaxTime
    /\ now' = now + 1
    /\ charged' = [o \in Origins |-> InWindow(charged[o], now')]
    /\ UNCHANGED <<batch, pool, doc, trunc, gen, limiterClass, user_files, accepted, last, lock, frame, req>>

\* file_limiter.check_and_increment(user_id, len(files_to_process)): the
\* count the quota is charged with
ChargedCountMut(nfiles) == 1
ChargedCount(nfiles) == FilesToProcess(nfiles)

\* upload_file / upload_file_stream up to the creation of the document
\* tasks: the truncation of the file list, the quota check, and either the
\* 429 answer or the start of processing.  (`if not files` is never taken:
\* the files parameter is required, a request has at least one file.)
UploadRequest(o, kind, uid, nfiles, d) ==
    /\ req[o].pc = "idle"
    /\ now + d <= MaxTime
    /\ InFlight + FilesToProcess(nfiles) <= MaxInFlight
    /\ LET n == FilesToProcess(nfiles)
           k == EffectiveId(limiterClass, uid)
           res == CheckAndIncrement(limiterClass, user_files, uid,
                                    ChargedCount(nfiles), now, now + d)
           allowed == res.ret.kind = "accepted"
           grown == Total(res.user_files[k]) - Total(CleanOld(user_files[k], now))
           r == [IdleReq EXCEPT !.kind = kind, !.user_id = uid,
                                !.requested = n, !.allowed = allowed,
                                !.checks = 1, !.grown = grown,
                                !.own_used = IF allowed THEN 0
                                             ELSE Total(charged[o])]
       IN  /\ WithinEntries(res.user_files)
           /\ user_files' = res.user_files
           /\ now' = now + d
           /\ charged' = [x \in Origins |->
                 InWindow(IF x = o /\ allowed /\ Falsy(uid)
                          THEN Append(charged[x],
                                      res.user_files[k][Len(res.user_files[k])])
                          ELSE charged[x], now')]
           /\ IF StartsTasks(allowed)
              THEN req' = [req EXCEPT ![o] =
                     [r EXCEPT !.pc = "processing",
                               !.tasks = [i \in 1..n |-> "start"]]]
              ELSE req' = [req EXCEPT ![o] = [r EXCEPT !.pc = "rejected"]]
    /\ UNCHANGED <<batch, pool, doc, trunc, gen, limiterClass, accepted, last, lock, frame>>

\* process_single_file(file, user_id, request), from validate_file to the
\* record it returns: `valid` is the answer of validate_file, `extracted`
\* whether process_document returned, `named` whether Renamer and the
\* construction of the success record returned
TaskResult(valid, extracted, named) ==
    IF ~valid THEN "validation_error"
    ELSE IF ~extracted \/ ~named THEN "processing_error"
    ELSE "success"

ProcessSingleFile(o, i, valid, extracted, named) ==
    /\ req[o].pc = "processing"
    /\ i \in DOMAIN req[o].tasks
    /\ req[o].tasks[i] = "start"
    /\ req' = [req EXCEPT ![o].tasks[i] = TaskResult(valid, extracted, named)]
    /\ UNCHANGED <<batch, pool, doc, trunc, gen, limiterClass, now, user_files, accepted, last, lock, frame,
                   charged>>

\* every task has finished: upload_file returns the JSON response,
\* event_generator calls get_stats and emits 'completed'
Respond(o) ==
    /\ req[o].pc = "processing"
    /\ \A i \in DOMAIN req[o].tasks : TaskDone(req[o].tasks[i])
    /\ IF req[o].kind = "stream"
       THEN LET res == GetStats(limiterClass, user_files, req[o].user_id, now)
            IN  /\ user_files' = res.user_files
                /\ req' = [req EXCEPT ![o].pc = "responded",
                                      ![o].tasks = <<>>]
       ELSE /\ req' = [req EXCEPT ![o].pc = "responded", ![o].tasks = <<>>]
            /\ UNCHANGED user_files
    /\ UNCHANGED <<batch, pool, doc, trunc, gen, limiterClass, now, accepted, last, lock, frame, charged>>

\* what the handlers do to the tracker when a request of n files charged
\* to identity k is cancelled: nothing (there is no rollback)
OnDisconnectMut(uf, k, n) ==
    IF uf[k] # <<>> /\ uf[k][Len(uf[k])].count = n
    THEN [uf EXCEPT ![k] = SubSeq(@, 1, Len(@) - 1)]
    ELSE uf
OnDisconnect(uf, k, n) == uf

\* the client disconnects, or the request is cancelled, while its documents
\* are processed: the tasks still running are cancelled with the request
\* (gather) or their results are dropped (the closed event generator);
\* none of them touches the tracker
Disconnect(o) ==
    /\ req[o].pc = "processing"
    /\ req' = [req EXCEPT ![o].pc = "cancelled", ![o].tasks = <<>>]
    /\ user_files' = OnDisconnect(user_files,
                                  EffectiveId(limiterClass, req[o].user_id),
                                  req[o].requested)
    /\ UNCHANGED <<batch, pool, doc, trunc, gen, limiterClass, now, accepted, last, lock, frame, charged>>

\* the request is over; the client may send another one
Forget(o) ==
    /\ req[o].pc \in {"rejected", "responded", "cancelled"}
    /\ req' = [req EXCEPT ![o] = IdleReq]
    /\ UNCHANGED <<batch, pool, doc, trunc, gen, limiterClass, now, user_files, accepted, last, lock, frame,
                   charged>>

\* get_limit_status: file_limiter.get_stats(user_id or "anonymous")
GetLimitStatus(uid) ==
    /\ user_files' = GetStats(limiterClass, user_files,
                              IF Falsy(uid) THEN "anonymous" ELSE uid,
                              now).user_files
    /\ UNCHANGED <<batch, pool, doc, trunc, gen, limiterClass, now, accepted, last, lock, frame, req,
                   charged>>

NextUpload ==
    \/ TickUpload
    \/ \E o \in Origins, kind \in Endpoints, uid \in UploadUserIds,
          nfiles \in 1..MaxFiles, d \in 0..1 :
          UploadRequest(o, kind, uid, nfiles, d)
    \/ \E o \in Origins, i \in 1..max_files_per_request,
          valid \in BOOLEAN, extracted \in BOOLEAN, named \in BOOLEAN :
          ProcessSingleFile(o, i, valid, extracted, named)
    \/ \E o \in Origins : Respond(o)
    \/ \E o \in Origins : Disconnect(o)
    \/ \E o \in Origins : Forget(o)
    \/ \E uid \in QueryUserIds : GetLimitStatus(uid)

SpecUpload == InitUpload /\ [][NextUpload]_vars

----------------------------------------------------------------------------
(* OpenAIProvider.generate_filename, one call at a time.  The method has   *)
(* one await, the request to the model, and shares no state with the       *)
(* tasks that run meanwhile: a call is one step.                           *)

InitNaming == InitUpload

TickNaming ==
    /\ now < MaxTime
    /\ now' = now + 1
    /\ UNCHANGED <<batch, pool, doc, trunc, gen, handlerVars, limiterClass, user_files, accepted, last,
                   lock, frame>>

\* LLMService.Renamer awaits generate_filename
Renamer ==
    /\ gen.pc = "idle"
    /\ \E limits \in Limits, langfuse \in LangfuseStates,
          original_filename \in Filenames, text_tokens \in TextTokens,
          max_tokens \in MaxTokensArgs, joint \in Joints,
          tokenizer_fails \in BOOLEAN, response \in Responses :
          gen' = GenerateFilename(limits, langfuse, original_filename,
                                  text_tokens, max_tokens, joint,
                                  tokenizer_fails, response, now)
    /\ UNCHANGED <<batch, pool, doc, trunc, handlerVars, limiterClass, now, user_files, accepted, last,
                   lock, frame>>

\* the caller has the result, or the exception
RenamerDone ==
    /\ gen.pc # "idle"
    /\ gen' = IdleGen
    /\ UNCHANGED <<batch, pool, doc, trunc, handlerVars, limiterClass, now, user_files, accepted, last,
                   lock, frame>>

NextNaming ==
    \/ TickNaming
    \/ Renamer
    \/ RenamerDone

SpecNaming == InitNaming /\ [][NextNaming]_vars

----------------------------------------------------------------------------
(* OpenAIProvider.truncate_text, a pure function: one call is one step.    *)

InitTruncate == InitUpload

\* truncate_text(text, max_tokens)
truncate_text ==
    /\ trunc.pc = "idle"
    /\ \E text \in Texts, max_tokens \in TokenLimits :
          trunc' = [pc |-> "returned", text |-> text, max_tokens |-> max_tokens,
                    returned |-> TruncateText(text, max_tokens).text,
                    kept |-> TruncateText(text, max_tokens).tokens]
    /\ UNCHANGED <<batch, pool, doc, gen, handlerVars, limiterClass, now, user_files, accepted,
                   last, lock, frame>>

\* the caller has the text
TruncateDone ==
    /\ trunc.pc = "returned"
    /\ trunc' = IdleTrunc
    /\ UNCHANGED <<batch, pool, doc, gen, handlerVars, limiterClass, now, user_files, accepted,
                   last, lock, frame>>

NextTruncate ==
    \/ truncate_text
    \/ TruncateDone

SpecTruncate == InitTruncate /\ [][NextTruncate]_vars

----------------------------------------------------------------------------
(* DataController.process_document, one document at a time: a step goes    *)
(* from one await of the OCR service to the next.                           *)

InitDocument == InitUpload

process_document ==
    /\ doc.pc = "idle"
    /\ \E content_type \in ContentTypes, corrupt \in BOOLEAN,
          layer \in TextLayers, pages \in 1..MaxPages,
          rasterized \in BOOLEAN, answer \in DetectorAnswers :
          doc' = ProcessDocument(content_type, corrupt, layer, pages,
                                 rasterized, answer)
    /\ UNCHANGED <<batch, pool, trunc, gen, handlerVars, limiterClass, now, user_files,
                   accepted, last, lock, frame>>

\* the coroutine comes to its next await of the OCR service
OcrSubmit ==
    /\ doc.pc \in {"sample", "full"}
    /\ Len(doc.started) = Len(doc.ocr_log)
    /\ doc' = Submitted(doc)
    /\ UNCHANGED <<batch, pool, trunc, gen, handlerVars, limiterClass, now, user_files,
                   accepted, last, lock, frame>>

\* the sample call has returned or raised
SamplePass ==
    /\ doc.pc = "sample"
    /\ Len(doc.started) > Len(doc.ocr_log)
    /\ \E ok \in BOOLEAN, text \in PageTexts, answer \in DetectorAnswers :
          doc' = SamplePassOf(doc, ok, text, answer)
    /\ UNCHANGED <<batch, pool, trunc, gen, handlerVars, limiterClass, now, user_files,
                   accepted, last, lock, frame>>

\* a call of the full pass has returned or raised
FullPass ==
    /\ doc.pc = "full"
    /\ Len(doc.started) > Len(doc.ocr_log)
    /\ \E ok \in BOOLEAN, text \in PageTexts :
          doc' = FullPassOf(doc, ok, text)
    /\ UNCHANGED <<batch, pool, trunc, gen, handlerVars, limiterClass, now, user_files,
                   accepted, last, lock, frame>>

\* the caller has the result, or the exception
DocumentDone ==
    /\ doc.pc \in {"returned", "raised"}
    /\ doc' = IdleDoc
    /\ UNCHANGED <<batch, pool, trunc, gen, handlerVars, limiterClass, now, user_files,
                   accepted, last, lock, frame>>

NextDocument ==
    \/ process_document
    \/ OcrSubmit
    \/ SamplePass
    \/ FullPass
    \/ DocumentDone

SpecDocument == InitDocument /\ [][NextDocument]_vars

----------------------------------------------------------------------------
(* PytesseractOCR.extract_text called by several document coroutines: the  *)
(* hand-over of a call to the executor, its start on a worker thread and   *)
(* its end are one step each.                                              *)

InitPool == InitUpload

\* a coroutine without a call under way awaits extract_text
extract_text ==
    /\ \E c \in Callers \ (Queued(pool) \cup Executing(pool)) :
          pool' = RunInExecutor(pool, c)
    /\ UNCHANGED <<batch, doc, trunc, gen, handlerVars, limiterClass, now,
                   user_files, accepted, last, lock, frame>>

WorkerStart ==
    /\ pool.queue # <<>>
    /\ WorkerFree(pool)
    /\ pool' = Dequeue(pool)
    /\ UNCHANGED <<batch, doc, trunc, gen, handlerVars, limiterClass, now,
                   user_files, accepted, last, lock, frame>>

WorkerEnd ==
    /\ \E c \in Executing(pool) : pool' = Release(pool, c)
    /\ UNCHANGED <<batch, doc, trunc, gen, handlerVars, limiterClass, now,
                   user_files, accepted, last, lock, frame>>

NextPool ==
    \/ extract_text
    \/ WorkerStart
    \/ WorkerEnd

SpecPool == InitPool /\ [][NextPool]_vars

----------------------------------------------------------------------------
(* upload_file and upload_file_stream with their document tasks, one       *)
(* request at a time.  Everything runs on the event loop: a step is the    *)
(* code of the handler, of the event generator or of one task between two  *)
(* awaits.  The two datetime.now() of the quota check read the same time.  *)

InitBatch == InitUpload

TickBatch ==
    /\ now < MaxTime
    /\ now' = now + 1
    /\ UNCHANGED <<batch, pool, doc, trunc, gen, handlerVars, limiterClass,
                   user_files, accepted, last, lock, frame>>

\* the handler up to its first await: files[:3], the quota check, and the
\* 429 answer, the creation of the tasks (upload_file) or the return of
\* the StreamingResponse (upload_file_stream)
Upload(kind) ==
    /\ batch.pc = "idle"
    /\ \E uid \in UploadUserIds, files \in FileLists :
          LET to_process == FilesToProcessOf(files)
              res == CheckAndIncrement(limiterClass, user_files, uid,
                                       Len(to_process), now, now)
              allowed == res.ret.kind = "accepted"
              b == [IdleBatch EXCEPT !.kind = kind, !.files = to_process,
                                     !.allowed = allowed]
          IN  /\ WithinEntries(res.user_files)
              /\ user_files' = res.user_files
              /\ batch' = IF ~allowed THEN [b EXCEPT !.pc = "rejected"]
                          ELSE IF kind = "batch"
                          THEN [WithTasks(b) EXCEPT !.pc = "processing"]
                          ELSE [b EXCEPT !.pc = "accepted"]
    /\ UNCHANGED <<pool, doc, trunc, gen, handlerVars, limiterClass, now,
                   accepted, last, lock, frame>>

\* event_generator up to its first `await coro`: the 'started' event and
\* the creation of the tasks
EmitStarted ==
    /\ batch.pc = "accepted"
    /\ batch' = [WithTasks(batch) EXCEPT
                    !.pc = "processing",
                    !.events = Append(@, [type |-> "started",
                                          total |-> Len(batch.files),
                                          data |-> NoRecord])]
    /\ UNCHANGED <<pool, doc, trunc, gen, handlerVars, limiterClass, now,
                   user_files, accepted, last, lock, frame>>

\* the task of file i has come to `task`; a task that has returned or
\* raised is finished
Stepped(b, i, task) ==
    [b EXCEPT !.tasks[i] = task,
              !.order = IF task.pc \in {"done", "raised"}
                        THEN Append(@, i) ELSE @]

\* the tasks of the request that are at `pc`
TasksAt(pc) ==
    IF batch.pc = "processing"
    THEN {i \in DOMAIN batch.tasks : batch.tasks[i].pc = pc}
    ELSE {}

ValidateFile ==
    /\ \E i \in TasksAt("start"), valid \in BOOLEAN :
          batch' = Stepped(batch, i,
                           Validated(batch.tasks[i], i, batch.files[i], valid))
    /\ UNCHANGED <<pool, doc, trunc, gen, handlerVars, limiterClass, now,
                   user_files, accepted, last, lock, frame>>

AwaitProcessDocument ==
    /\ \E i \in TasksAt("extract"), outcome \in ExtractOutcomes :
          batch' = Stepped(batch, i,
                           Extracted(batch.tasks[i], i, batch.files[i], outcome))
    /\ UNCHANGED <<pool, doc, trunc, gen, handlerVars, limiterClass, now,
                   user_files, accepted, last, lock, frame>>

\* the await of Renamer ends with the name the model generated
RenamerGenerated ==
    /\ \E i \in TasksAt("naming") :
          batch' = Stepped(batch, i,
                           Named(batch.tasks[i], i, batch.files[i],
                                 "generated", now))
    /\ UNCHANGED <<pool, doc, trunc, gen, handlerVars, limiterClass, now,
                   user_files, accepted, last, lock, frame>>

\* the await of Renamer ends with the fallback name
RenamerFallback ==
    /\ \E i \in TasksAt("naming"), reason \in FallbackReasons :
          batch' = Stepped(batch, i,
                           Named(batch.tasks[i], i, batch.files[i], reason, now))
    /\ UNCHANGED <<pool, doc, trunc, gen, handlerVars, limiterClass, now,
                   user_files, accepted, last, lock, frame>>

\* upload_file after `await asyncio.gather(*tasks)`: the JSON response when
\* every task has returned, the exception of a task as soon as one raised
GatherDone ==
    /\ batch.pc = "processing"
    /\ batch.kind = "batch"
    /\ \/ TasksAt("raised") # {}
       \/ TasksAt("done") = DOMAIN batch.tasks
    /\ batch' = IF TasksAt("raised") # {} THEN [batch EXCEPT !.pc = "failed"]
                ELSE [batch EXCEPT !.pc = "responded",
                                   !.answer = Answer(Gather(batch))]
    /\ UNCHANGED <<pool, doc, trunc, gen, handlerVars, limiterClass, now,
                   user_files, accepted, last, lock, frame>>

\* event_generator after an `await coro` of the as_completed loop: the
\* 'result' event of the task, or its exception
EmitResult ==
    /\ batch.pc = "processing"
    /\ batch.kind = "stream"
    /\ Emitted(batch) < Len(batch.order)
    /\ LET task == batch.tasks[NextCompleted(batch)]
       IN  batch' = IF task.pc = "raised" THEN [batch EXCEPT !.pc = "failed"]
                    ELSE [batch EXCEPT !.events =
                             Append(@, [type |-> "result", total |-> 0,
                                        data |-> task.record])]
    /\ UNCHANGED <<pool, doc, trunc, gen, handlerVars, limiterClass, now,
                   user_files, accepted, last, lock, frame>>

\* event_generator after the loop: get_stats and the 'completed' event
EmitCompleted ==
    /\ batch.pc = "processing"
    /\ batch.kind = "stream"
    /\ Emitted(batch) = Len(batch.files)
    /\ user_files' = GetStats(limiterClass, user_files, None, now).user_files
    /\ batch' = [batch EXCEPT
                    !.pc = "responded",
                    !.events = Append(@, [type |-> "completed", total |-> 0,
                                          data |-> NoRecord])]
    /\ UNCHANGED <<pool, doc, trunc, gen, handlerVars, limiterClass, now,
                   accepted, last, lock, frame>>

\* the request is over; the next one may come
BatchOver ==
    /\ batch.pc \in {"rejected", "responded", "failed"}
    /\ batch' = IdleBatch
    /\ UNCHANGED <<pool, doc, trunc, gen, handlerVars, limiterClass, now,
                   user_files, accepted, last, lock, frame>>

\* a step of a document task
TaskStep ==
    ValidateFile \/ AwaitProcessDocument \/ RenamerGenerated \/ RenamerFallback

\* a step of the handler or of the event generator after the quota check
HandlerStep == EmitStarted \/ GatherDone \/ EmitResult \/ EmitCompleted

NextBatch ==
    \/ TickBatch
    \/ \E kind \in Endpoints : Upload(kind)
    \/ EmitStarted
    \/ ValidateFile
    \/ AwaitProcessDocument
    \/ RenamerGenerated
    \/ RenamerFallback
    \/ GatherDone
    \/ EmitResult
    \/ EmitCompleted
    \/ BatchOver

SpecBatch == InitBatch /\ [][NextBatch]_vars

\* the requests to /upload/stream alone, at one reading of the clock
NextStream ==
    \/ Upload("stream")
    \/ EmitStarted
    \/ ValidateFile
    \/ AwaitProcessDocument
    \/ RenamerGenerated
    \/ RenamerFallback
    \/ EmitResult
    \/ EmitCompleted
    \/ BatchOver

\* the event loop runs every task that is ready (every await of a task
\* comes to an end) and the server keeps reading the event generator
SpecStream ==
    /\ InitBatch
    /\ [][NextStream]_vars
    /\ WF_vars(TaskStep)
    /\ WF_vars(HandlerStep)

----------------------------------------------------------------------------
(* Properties of the tracker *)

\* the entries of a sequence that are less than 24 hours old at time t
Surviving(entries, t) ==
    SelectSeq(entries, LAMBDA e : t - e.ts < Day)

\* the sum of the counts of a sequence of entries
SumCounts(entries) ==
    LET S[i \in 0..Len(entries)] ==
            IF i = 0 THEN 0 ELSE S[i - 1] + entries[i].count
    IN  S[Len(entries)]

\* C1: for every identity, at every moment, the counts of the accepted
\* entries whose timestamp lies within the trailing 24 hours sum to at most
\* max_files_per_day.
InvC1 ==
    \A k \in Identities :
        SumCounts(Surviving(accepted[k], now)) <= max_files_per_day

\* An accepted call has filled an identity's window to the limit after an
\* earlier accepted entry of that identity had left the window.
WitC1 ==
    /\ last.op = "check_and_increment"
    /\ last.ret.kind = "accepted"
    /\ last.before # <<>>
    /\ Surviving(last.before, last.at) = <<>>
    /\ SumCounts(Surviving(accepted[last.user_id], now)) = max_files_per_day

\* C3: the tracker the upload handlers use (the class of route.py) raises
\* on an empty or missing identity, records nothing for the call and never
\* keeps entries under the shared identity "anonymous".
InvC3 ==
    limiterClass = "route" =>
        /\ (last.op = "check_and_increment" /\ Falsy(last.arg)) =>
               last.ret.kind = "raised"
        /\ user_files["anonymous"] = <<>>

\* C5 as stated: rejection exactly when used + n exceeds the limit; on
\* rejection remaining = max(0, limit - used) and reset_at is the timestamp
\* of the oldest surviving entry plus 24 hours; on acceptance remaining =
\* limit - used - n.
InvC5Stated ==
    (last.op = "check_and_increment" /\ last.ret.kind # "raised") =>
        LET surv == Surviving(last.before, last.at)
            used == SumCounts(surv)
            n == last.file_count
        IN  /\ last.ret.kind = "rejected" <=> used + n > max_files_per_day
            /\ last.ret.kind = "rejected" =>
                  /\ last.ret.remaining = Max(0, max_files_per_day - used)
                  /\ \E i \in 1..Len(surv) :
                        /\ \A j \in 1..Len(surv) : surv[i].ts <= surv[j].ts
                        /\ last.ret.reset_at = surv[i].ts + Day
            /\ last.ret.kind = "accepted" =>
                  last.ret.remaining = max_files_per_day - used - n

\* C5, amended: as stated, and when no entry survives the pruning (the
\* requested count alone exceeds the limit) reset_at is the current time of
\* the call plus 24 hours.
InvC5 ==
    (last.op = "check_and_increment" /\ last.ret.kind # "raised") =>
        LET surv == Surviving(last.before, last.at)
            used == SumCounts(surv)
            n == last.file_count
        IN  /\ last.ret.kind = "rejected" <=> used + n > max_files_per_day
            /\ last.ret.kind = "rejected" =>
                  /\ last.ret.remaining = Max(0, max_files_per_day - used)
                  /\ IF surv = <<>>
                     THEN /\ n > max_files_per_day
                          /\ last.ret.reset_at - Day \in last.at..now
                     ELSE \E i \in 1..Len(surv) :
                            /\ \A j \in 1..Len(surv) :
                                  surv[i].ts <= surv[j].ts
                            /\ last.ret.reset_at = surv[i].ts + Day
            /\ last.ret.kind = "accepted" =>
                  last.ret.remaining = max_files_per_day - used - n

\* A call was rejected while two entries with different timestamps
\* survived, and the identity had quota left.
WitC5 ==
    /\ last.op = "check_and_increment"
    /\ last.ret.kind = "rejected"
    /\ last.ret.remaining > 0
    /\ LET surv == Surviving(last.before, last.at)
       IN  Len(surv) = 2 /\ surv[1].ts < surv[2].ts

\* C2: the statements from pruning to append of one call run under the
\* tracker lock, the sum a call compared is still the identity's sum when
\* the call appends, and the calls accepted from concurrent threads never
\* bring the identity's in-window total above max_files_per_day.
InvC2 ==
    /\ \A p \in Threads :
          frame[p].pc \in {"clean", "sum", "append"} => lock = p
    /\ \A p \in Threads :
          frame[p].pc = "append" =>
             frame[p].total_uploaded = SumCounts(user_files[frame[p].user_id])
    /\ \A k \in Identities :
          SumCounts(Surviving(accepted[k], now)) <= max_files_per_day

\* A call is about to append while another call for the same identity waits
\* for the lock, each fits the quota left and both together do not.
WitC2 ==
    \E p, q \in Threads :
        /\ p # q
        /\ frame[p].pc = "append"
        /\ frame[q].pc = "lock"
        /\ frame[q].op = "check_and_increment"
        /\ frame[q].user_id = frame[p].user_id
        /\ lock = p
        /\ frame[p].total_uploaded + frame[q].file_count <= max_files_per_day
        /\ frame[p].total_uploaded + frame[p].file_count + frame[q].file_count
              > max_files_per_day

\* C4: a request without explicit user id is charged to its own network
\* origin: it is rejected only when the uploads accepted for its own origin
\* within the trailing 24 hours, plus the files it asks for, exceed the limit.
InvC4 ==
    \A o \in Origins :
        (req[o].pc = "rejected" /\ Falsy(req[o].user_id)) =>
            req[o].own_used + req[o].requested > max_files_per_day

\* C6: a request makes exactly one quota check, before any of its document
\* tasks exists, and a rejected request has no document task at all (no
\* validation, extraction, OCR or model call).
InvC6 ==
    \A o \in Origins :
        /\ req[o].pc # "idle" => req[o].checks = 1
        /\ req[o].tasks # <<>> => (req[o].checks = 1 /\ req[o].allowed)
        /\ (req[o].pc # "idle" /\ ~req[o].allowed) =>
              (req[o].pc = "rejected" /\ req[o].tasks = <<>>)

\* One request was rejected while the documents of another one are
\* processed.
WitC6 ==
    \E o, x \in Origins :
        /\ req[o].pc = "rejected"
        /\ req[x].pc = "processing"
        /\ \E i \in DOMAIN req[x].tasks : req[x].tasks[i] = "success"

\* the documents of a request that passed validation
PassedValidation(o) ==
    {i \in DOMAIN req[o].tasks : req[o].tasks[i] # "validation_error"}

\* every document task of the request has returned its record
AllDone(o) ==
    /\ req[o].pc = "processing"
    /\ \A i \in DOMAIN req[o].tasks : TaskDone(req[o].tasks[i])

\* C7 as stated: after a request, the identity's used count has grown by
\* the number of documents that passed validation.
InvC7Stated ==
    \A o \in Origins :
        AllDone(o) => req[o].grown = Cardinality(PassedValidation(o))

\* C7, amended: the quota is charged before validation, so an accepted
\* request makes the identity's used count grow by the number of documents
\* of the truncated batch, whether or not they pass validation; a rejected
\* request makes it grow by nothing.
InvC7 ==
    \A o \in Origins :
        /\ req[o].pc = "processing" =>
              /\ req[o].grown = Len(req[o].tasks)
              /\ req[o].grown = Min(req[o].requested, max_files_per_request)
        /\ req[o].pc = "rejected" => req[o].grown = 0

\* A request was charged for two documents or more, one of which failed
\* validation while another one succeeded.
WitC7 ==
    \E o \in Origins :
        /\ AllDone(o)
        /\ \E i, j \in DOMAIN req[o].tasks :
              /\ req[o].tasks[i] = "validation_error"
              /\ req[o].tasks[j] = "success"
        /\ req[o].grown > Cardinality(PassedValidation(o))

\* a is a prefix of b
IsPrefix(a, b) == Len(a) <= Len(b) /\ SubSeq(b, 1, Len(a)) = a

\* C8: no step of a request (a failing document, the response, a
\* disconnect) removes or changes an entry that is less than 24 hours old:
\* the entries of an identity still in the window after a step were
\* there, unchanged and in the same order, before it, new ones come last.
PropC8 ==
    [][\A k \in Identities :
          IsPrefix(Surviving(user_files[k], now'),
                   Surviving(user_files'[k], now'))]_vars

\* A request was accepted and then cancelled, and the entries it was
\* charged are the identity's entries.
WitC8 ==
    \E o \in Origins :
        /\ req[o].pc = "cancelled"
        /\ req[o].allowed
        /\ charged[o] # <<>>
        /\ user_files["anonymous"] = charged[o]

\* whether a check_and_increment of n files at time t is rejected, given
\* the identity's stored sequence
Rejects(entries, n, t) == Exceeds(Total(CleanOld(entries, t)), n)

\* C9: get_stats leaves exactly the entries less than 24 hours old, in
\* order and unchanged, reports the sum of their counts, and does not change
\* the decision of any later check_and_increment.
InvC9 ==
    (last.op = "get_stats" /\ last.ret.kind = "stats") =>
        /\ user_files[last.user_id] = Surviving(last.before, last.at)
        /\ last.ret.uploaded = SumCounts(Surviving(last.before, last.at))
        /\ \A n \in Counts, t \in now..MaxTime :
              Rejects(user_files[last.user_id], n, t)
                = Rejects(last.before, n, t)

\* get_stats has evicted an expired entry and kept a younger one.
WitC9 ==
    /\ last.op = "get_stats"
    /\ last.ret.kind = "stats"
    /\ Len(last.before) = 2
    /\ Len(user_files[last.user_id]) = 1
    /\ last.ret.uploaded > 0

----------------------------------------------------------------------------
(* Properties of the naming engine *)

\* the call did not get a text from the model: the tokenizer raised, the
\* budget guard stopped it, the request to the model raised or timed out,
\* the response had no choice or its content was None
NoTextFromModel ==
    gen.path \in {"tokenizer", "guard", "provider", "no_choices",
                  "none_content"}

\* a failure of the list of C10 happened in the call
FailureInside ==
    \/ NoTextFromModel
    \/ gen.path = "generated" /\ gen.response.content = <<>>
    \/ gen.langfuse = "failing"

\* C10 as stated: generate_filename never raises, and after every failure
\* inside it (tokenizer, budget guard, provider error or timeout, no
\* choices, empty or None content, tracing error) the filename it returns
\* is the fallback name.
InvC10Stated ==
    gen.pc # "idle" =>
        /\ gen.pc = "returned"
        /\ FailureInside =>
               gen.filename = FallbackFilename(gen.original_filename, gen.at)

\* C10, amended: generate_filename raises no exception to its caller (only
\* the cancellation of its task goes through it); when it got no text from
\* the model it returns the fallback name; when it got one, also the empty
\* one, it returns the sanitized text, which is "document" for a text with
\* nothing to keep, and a tracing error changes nothing of this.
InvC10 ==
    gen.pc # "idle" =>
        /\ gen.pc = "raised" <=> gen.exc = "CancelledError"
        /\ gen.pc = "raised" => (gen.called /\ gen.response.kind = "CancelledError")
        /\ (NoTextFromModel /\ gen.pc = "returned") =>
               gen.filename = FallbackFilename(gen.original_filename, gen.at)
        /\ gen.path = "generated" =>
               /\ gen.pc = "returned"
               /\ gen.filename = CleanFilename(gen.response.content)
               /\ Strip(gen.response.content, Whitespace) = <<>> =>
                      gen.filename = Document

\* The response had no choice while tracing was failing, and the call
\* returned the fallback name of a file with a stem of its own.
WitC10 ==
    /\ gen.pc = "returned"
    /\ gen.exc = "IndexError"
    /\ gen.langfuse = "failing"
    /\ gen.filename = FallbackFilename(gen.original_filename, gen.at)
    /\ CleanFilename(Stem(gen.original_filename)) # Document


\* a character of [a-z0-9_-]
AsciiNameChar(c) ==
    \/ c \in LowerCase \cup {"_", "-"}
    \/ \E i \in 1..Len(DigitChars) : c = DigitChars[i]

\* the call returned the fallback name
ReturnedFallback ==
    gen.pc = "returned" /\ gen.path # "generated"

\* C11 as stated: on every path the filename returned is non-empty, at most
\* 50 characters long and made only of characters of [a-z0-9_-].
InvC11Stated ==
    gen.pc = "returned" =>
        /\ gen.filename # <<>>
        /\ Len(gen.filename) <= 50
        /\ \A i \in 1..Len(gen.filename) : AsciiNameChar(gen.filename[i])

\* C11, amended: the filename returned is non-empty and made only of
\* lower-case letters, digits, underscores, hyphens and letters of other
\* scripts (word characters outside ASCII); a generated name has at most 50
\* characters, a fallback name at most 50 more than the 16 of the underscore
\* and the timestamp.
InvC11 ==
    gen.pc = "returned" =>
        /\ gen.filename # <<>>
        /\ \A i \in 1..Len(gen.filename) :
               AsciiNameChar(gen.filename[i]) \/ gen.filename[i] = AR
        /\ gen.path = "generated" => Len(gen.filename) <= 50
        /\ ReturnedFallback =>
               /\ Len(gen.filename) <= 50 + 16
               /\ Len(gen.filename) > 16

\* A fallback name of 66 characters was returned after a provider error.
WitC11 ==
    /\ ReturnedFallback
    /\ gen.exc = "APIError"
    /\ Len(gen.filename) = 66

\* C12: whenever the fallback name is returned the usage returned with it
\* is zero in its three counts, also when the failure came after the
\* response and its usage metadata.
InvC12 ==
    ReturnedFallback => gen.usage = ZeroUsage

\* C13 as stated: in every call that reaches the model, the tokens of the
\* system prompt, of the kept text and of the template are together at most
\* max_input_tokens.
InvC13Stated ==
    gen.called =>
        SystemPromptTokens + gen.kept_tokens
            + TemplateTokens(gen.original_filename)
        <= gen.limits.max_input_tokens

\* the tokens of the two prompts without the text
PromptTokens == SystemPromptTokens + TemplateTokens(gen.original_filename)

\* C13, amended: in every call that reaches the model, the three token
\* counts are together at most max_input_tokens - 100 when that leaves the
\* text 100 tokens or more; otherwise the text is cut to the floor of 100
\* tokens and the sum, at most the prompts' tokens + 100, can exceed
\* max_input_tokens.
InvC13 ==
    gen.called =>
        IF gen.limits.max_input_tokens - 100 - PromptTokens >= 100
        THEN PromptTokens + gen.kept_tokens <= gen.limits.max_input_tokens - 100
        ELSE gen.kept_tokens <= 100

\* A call reached the model with its text cut to what the input limit left.
WitC13 ==
    /\ gen.called
    /\ gen.kept_tokens > 100
    /\ PromptTokens + gen.kept_tokens = gen.limits.max_input_tokens - 100

\* C14: when the recomputed input tokens plus max_output_tokens exceed
\* max_total_tokens, no call to the model is made and the fallback name is
\* returned with zeroed usage; a call is made only when they do not.
InvC14 ==
    (gen.pc # "idle" /\ gen.path # "tokenizer") =>
        /\ gen.total_input_tokens + gen.limits.max_output_tokens
               > gen.limits.max_total_tokens
           => /\ ~gen.called
              /\ gen.pc = "returned"
              /\ gen.filename = FallbackFilename(gen.original_filename, gen.at)
              /\ gen.usage = ZeroUsage
        /\ gen.called =>
               gen.total_input_tokens + gen.limits.max_output_tokens
                   <= gen.limits.max_total_tokens

\* The guard stopped a call whose input alone was within max_total_tokens.
WitC14 ==
    /\ gen.path = "guard"
    /\ ~gen.called
    /\ gen.total_input_tokens <= gen.limits.max_total_tokens


----------------------------------------------------------------------------
(* Properties of truncate_text *)

\* a is the sequence of the first Len(a) elements of b
StartsWith(b, a) ==
    /\ Len(a) <= Len(b)
    /\ \A i \in 1..Len(a) : a[i] = b[i]

\* C15: truncate_text(T, k) returns T unchanged when T has at most k
\* tokens and otherwise the decoding of the first k tokens of T: the tokens
\* kept are the first tokens of T and are at most k.
InvC15 ==
    trunc.pc = "returned" =>
        LET tokens == Encode(trunc.text)
            k == trunc.max_tokens
        IN  /\ Len(tokens) <= k =>
                   (trunc.returned = trunc.text /\ trunc.kept = tokens)
            /\ Len(tokens) > k =>
                   /\ Len(trunc.kept) = k
                   /\ trunc.returned = Decode(trunc.kept)
            /\ StartsWith(tokens, trunc.kept)
            /\ Len(trunc.kept) <= k

\* A text was cut between the two bytes of a letter: the tokens kept are
\* the first ones, the text returned ends with the replacement character.
WitC15 ==
    /\ trunc.pc = "returned"
    /\ Len(Encode(trunc.text)) > trunc.max_tokens
    /\ trunc.max_tokens >= 2
    /\ trunc.returned[Len(trunc.returned)] = Replacement


----------------------------------------------------------------------------
(* Properties of the document classifier *)

\* the number of characters of a text that are not whitespace
RECURSIVE Inked(_)
Inked(text) ==
    IF text = <<>> THEN 0
    ELSE (IF Head(text) \in {" ", "\n"} THEN 0 ELSE 1) + Inked(Tail(text))

\* C16: is_scanned_pdf(T) is true exactly when T without its whitespace has
\* fewer than 100 characters, and a PDF goes to the digital path exactly
\* when it is false.
InvC16 ==
    doc.path \in {"digital", "scanned"} =>
        /\ IsScannedPdf(doc.extracted) <=> Inked(doc.extracted) < 100
        /\ doc.path = "digital" <=> Inked(doc.extracted) >= 100
        /\ doc.path = "scanned" <=> Inked(doc.extracted) < 100

\* A PDF went the digital path with a text of exactly 100 characters beside
\* its whitespace.
WitC16 ==
    /\ doc.path = "digital"
    /\ Inked(doc.extracted) = 100
    /\ Len(doc.extracted) > 100

\* the full-pass OCR call on page i
FullCall(i) ==
    CHOOSE c \in {doc.ocr_log[j] : j \in 1..Len(doc.ocr_log)} :
        c.pass = "full" /\ c.page = i

\* C17: an OCR failure on a page, the first one included, never aborts the
\* extraction: the call returns, the failed page contributes the empty
\* string and every other page its own text.
InvC17 ==
    /\ doc.pc = "raised" => doc.exc # "ocr"
    /\ (doc.pc = "returned" /\ doc.result.is_scanned) =>
           \A i \in 1..doc.images :
               doc.parts[i] = IF FullCall(i).ok THEN FullCall(i).text ELSE <<>>

\* the texts joined by a blank line
RECURSIVE BlankLineJoined(_)
BlankLineJoined(texts) ==
    IF Len(texts) = 0 THEN <<>>
    ELSE IF Len(texts) = 1 THEN texts[1]
    ELSE BlankLineJoined(SubSeq(texts, 1, Len(texts) - 1))
         \o <<"\n", "\n">> \o texts[Len(texts)]

\* the call returned from the scanned path
ReturnedScanned ==
    doc.pc = "returned" /\ doc.path \in {"image", "scanned"}

\* C18: the scanned path returns is_scanned = true, pages = the number of
\* rasterized pages (1 for an image) and text = the texts of the full pass
\* in page order, joined by a blank line and trimmed; when the second of
\* two pages fails the text is the first page's.
InvC18 ==
    ReturnedScanned =>
        /\ doc.result.is_scanned
        /\ doc.result.pages = doc.images
        /\ doc.path = "image" => doc.result.pages = 1
        /\ doc.result.text =
               Strip(BlankLineJoined([i \in 1..doc.images |-> FullCall(i).text]),
                     {" ", "\n"})
        /\ (doc.images = 2 /\ ~FullCall(2).ok) =>
               doc.result.text = FullCall(1).text

\* A document of two pages returned the text of its first page, the second
\* having failed.
WitC18 ==
    /\ ReturnedScanned
    /\ doc.images = 2
    /\ ~FullCall(2).ok
    /\ FullCall(1).ok
    /\ doc.result.text = <<"a", "\n", "b">>

\* an image content type
IsImage(content_type) ==
    content_type \in {"image/png", "image/jpg", "image/jpeg", "image/gif"}

\* the call has come to its end
DocEnded == doc.pc \in {"returned", "raised"}

\* no OCR call and no detector call was made
NoCalls == doc.ocr_log = <<>> /\ doc.detect_calls = 0

\* C19 as stated: process_document fails as unsupported exactly for the
\* content types that are neither an image type nor PDF, then without any
\* OCR or detector call, and every image or PDF document yields a result.
InvC19Stated ==
    DocEnded =>
        /\ doc.exc = "unsupported" <=>
               ~(IsImage(doc.content_type) \/ doc.content_type = "application/pdf")
        /\ doc.exc = "unsupported" => NoCalls
        /\ (IsImage(doc.content_type) \/ doc.content_type = "application/pdf")
               => doc.pc = "returned"

\* the content types process_document knows
Supported(content_type) ==
    content_type \in {"image/png", "image/jpg", "image/jpeg", "application/pdf"}

\* C19, amended: process_document fails as unsupported exactly for the
\* content types other than image/png, image/jpg, image/jpeg and
\* application/pdf, then without any OCR or detector call; a document of
\* one of these four types yields a result or fails with the error of the
\* PDF parser, of the rasterizer or of the OCR engine.
InvC19 ==
    DocEnded =>
        /\ doc.exc = "unsupported" <=> ~Supported(doc.content_type)
        /\ doc.exc = "unsupported" => (doc.pc = "raised" /\ NoCalls)
        /\ Supported(doc.content_type) =>
               \/ doc.pc = "returned" /\ doc.result.pages >= 1
               \/ doc.pc = "raised" /\ doc.exc \in {"pdf", "rasterize", "ocr"}

\* An image of a type outside the three was refused as unsupported.
WitC19 ==
    /\ doc.pc = "raised"
    /\ doc.exc = "unsupported"
    /\ doc.content_type = "image/gif"
    /\ NoCalls

\* C20 as stated: a document with an image content type skips the text
\* layer and the 100-character test and goes to OCR as a single page; its
\* result has is_scanned = true and pages = 1.
InvC20Stated ==
    (doc.pc # "idle" /\ IsImage(doc.content_type)) =>
        /\ doc.path = "image"
        /\ doc.images = 1
        /\ doc.pc = "returned" => (doc.result.is_scanned /\ doc.result.pages = 1)

\* C20, amended: a document whose content type is image/png, image/jpg or
\* image/jpeg is never classified as digital: no text layer is extracted,
\* its first step is the OCR of its single page, and its result has
\* is_scanned = true and pages = 1; another image type is unsupported.
InvC20 ==
    (doc.pc # "idle" /\ IsImage(doc.content_type)) =>
        IF doc.content_type = "image/gif"
        THEN doc.pc = "raised" /\ doc.exc = "unsupported"
        ELSE /\ doc.path = "image"
             /\ doc.extracted = <<>>
             /\ doc.images = 1
             /\ \A j \in 1..Len(doc.ocr_log) : doc.ocr_log[j].page = 1
             /\ doc.pc = "returned" =>
                    /\ doc.result.is_scanned
                    /\ doc.result.pages = 1
                    /\ Len(doc.ocr_log) = 2

\* An image was read by OCR and its text returned.
WitC20 ==
    /\ doc.pc = "returned"
    /\ doc.content_type = "image/jpeg"
    /\ doc.result.is_scanned
    /\ doc.result.text # <<>>

\* detect_language has returned
Decided == doc.language # "none"

\* C27: detect_language returns "eng" whenever the text has fewer than 10
\* characters that are not whitespace, whenever the detector raises and
\* whenever the detected code is no key of the lookup table; its result is
\* always "eng" or a value of the lookup table.
InvC27 ==
    Decided =>
        /\ Inked(doc.detect_text) < 10 => doc.language = "eng"
        /\ doc.detect_answer = "raise" => doc.language = "eng"
        /\ doc.detect_answer \notin {"en", "ar"} => doc.language = "eng"
        /\ doc.language \in {"eng", "ara"}

\* the OCR calls of the document that have started and not yet returned
Running == Len(doc.started) - Len(doc.ocr_log)

\* C26: the OCR calls of a scanned document of N pages are one sample call
\* on page 1 with the hint "eng+ara", then, the language being decided,
\* exactly N calls of the full pass on the pages 1..N in order, all with
\* the decided language; no call starts before the one before it has
\* returned.
InvC26 ==
    doc.images >= 1 =>
        /\ Running \in {0, 1}
        /\ \A k \in 1..Len(doc.started) :
               IF k = 1
               THEN doc.started[k] =
                        [pass |-> "sample", page |-> 1, lang |-> "eng+ara"]
               ELSE /\ Decided
                    /\ Len(doc.ocr_log) >= k - 1
                    /\ doc.started[k] = [pass |-> "full", page |-> k - 1,
                                         lang |-> doc.language]
        /\ Len(doc.started) <= doc.images + 1
        /\ DocEnded => Len(doc.started) = doc.images + 1

\* C26 for the documents whose sample call returns: the same order, and
\* N + 1 calls when process_document returns
OrderC26 ==
    doc.images >= 1 =>
        /\ Running \in {0, 1}
        /\ \A k \in 1..Len(doc.started) :
               IF k = 1
               THEN doc.started[k] =
                        [pass |-> "sample", page |-> 1, lang |-> "eng+ara"]
               ELSE /\ Decided
                    /\ Len(doc.ocr_log) >= k - 1
                    /\ doc.started[k] = [pass |-> "full", page |-> k - 1,
                                         lang |-> doc.language]
        /\ Len(doc.started) <= doc.images + 1
        /\ doc.pc = "returned" => Len(doc.started) = doc.images + 1

\* the entries of a sequence whose timestamp is strictly later than t - 24h
Younger(entries, t) == SelectSeq(entries, LAMBDA e : e.ts > t - Day)

\* a call on the tracker that went through the pruning
Pruning == last.op # "none" /\ last.ret.kind \in {"accepted", "rejected", "stats"}

\* C28: after a check_and_increment or get_stats on identity X at time t,
\* X's sequence is the entries it held before whose timestamp is strictly
\* later than t - 24h, in their order, plus the new entry when the call was
\* accepted: an entry 24 hours old or older is gone, no younger one is.
InvC28 ==
    Pruning =>
        LET before == last.before
            after == user_files[last.user_id]
            kept == IF last.ret.kind = "accepted"
                    THEN SubSeq(after, 1, Len(after) - 1) ELSE after
        IN  /\ kept = Younger(before, last.at)
            /\ \A i \in 1..Len(kept) : kept[i].ts > last.at - Day
            /\ \A i \in 1..Len(before) :
                   before[i].ts <= last.at - Day =>
                       \A j \in 1..Len(kept) : kept[j] # before[i]
            /\ Len(kept) =
                   Cardinality({i \in 1..Len(before) : before[i].ts > last.at - Day})
            /\ last.ret.kind = "accepted" =>
                   /\ after # <<>>
                   /\ after[Len(after)].count = last.file_count
                   /\ after[Len(after)].ts \in {last.at, last.at + 1}

\* An accepted check_and_increment evicted an entry exactly 24 hours old
\* and kept a younger one.
WitC28 ==
    /\ last.op = "check_and_increment"
    /\ last.ret.kind = "accepted"
    /\ Len(last.before) = 2
    /\ last.before[1].ts = last.at - Day
    /\ last.before[2].ts > last.at - Day
    /\ user_files[last.user_id][1] = last.before[2]
    /\ Len(user_files[last.user_id]) = 2

\* C29: a rejected check_and_increment on X appends nothing, it leaves of
\* X's sequence what the eviction of the expired entries leaves; and a
\* call on X, accepted or rejected, changes the sequence of no other
\* identity.
PropC29 ==
    [][/\ \A k \in Identities :
             user_files'[k] # user_files[k] =>
                 (k = last'.user_id /\ last'.at = now)
       /\ (/\ last'.op = "check_and_increment"
           /\ last'.ret.kind = "rejected"
           /\ last'.at = now) =>
              user_files'[last'.user_id] =
                  Younger(user_files[last'.user_id], now)]_vars

\* A check_and_increment was rejected after the eviction of an expired
\* entry of its identity, another identity having entries of its own.
WitC29 ==
    /\ last.op = "check_and_increment"
    /\ last.ret.kind = "rejected"
    /\ Len(user_files[last.user_id]) = 1
    /\ Len(last.before) = 2
    /\ \E k \in Identities : k # last.user_id /\ user_files[k] # <<>>

\* C30: for every call that reaches the model, the output limit sent with
\* the request is the one the budget guard checked: the input tokens plus
\* the max_tokens of the request do not exceed max_total_tokens.
InvC30 ==
    gen.called =>
        gen.total_input_tokens + gen.max_output <= gen.limits.max_total_tokens

\* the same for the calls without a max_tokens argument, the only ones
\* LLMService.Renamer makes
DefaultC30 ==
    (gen.called /\ gen.max_output = gen.limits.max_output_tokens) =>
        gen.total_input_tokens + gen.max_output <= gen.limits.max_total_tokens

----------------------------------------------------------------------------
(* Properties of the OCR executor *)

\* C24: at most 4 OCR calls execute at the same time, whatever the number
\* of documents and requests; a call beyond them is in the queue of the
\* pool, neither executing nor lost, and moves from the queue to a worker
\* only when fewer than 4 execute; every call executes on a worker thread
\* of the pool, never on the event-loop thread.
PropC24 ==
    [][/\ Cardinality(pool'.running) <= 4
       /\ Queued(pool') \cap Executing(pool') = {}
       /\ \A c \in Queued(pool) : c \in Queued(pool') \cup Executing(pool')
       /\ \A c \in Executing(pool') \ Executing(pool) :
              /\ Cardinality(pool.running) < 4
              /\ pool.queue # <<>> /\ c = Head(pool.queue)
       /\ \A x \in pool'.running : x.thread = "worker"]_vars

\* Four calls execute and a fifth waits in the queue.
WitC24 ==
    /\ Cardinality(pool.running) = 4
    /\ Len(pool.queue) = 1
    /\ \A x \in pool.running : x.thread = "worker"

----------------------------------------------------------------------------
(* Properties of the upload handlers and their document tasks *)

\* the tasks of the request
TaskIds == DOMAIN batch.tasks

\* the failures of a document the claim names
DocumentFailures ==
    {"validation", "corrupt", "rasterize", "ocr_sample", "ocr_page", "naming"}

\* no failure of a document fails the request, and a document that is
\* finished has a success or an error record of its own
BatchSurvives ==
    /\ batch.pc # "failed"
    /\ \A i \in TaskIds :
           /\ batch.tasks[i].pc # "raised"
           /\ batch.tasks[i].pc = "done" =>
                  /\ batch.tasks[i].record.file = i
                  /\ batch.tasks[i].record.original_filename = batch.files[i]
                  /\ batch.tasks[i].record.status \in {"success", "error"}
    /\ batch.pc = "responded" =>
           \A i \in 1..Len(batch.files) :
               i \in TaskIds /\ batch.tasks[i].pc = "done"

\* a step of one task changes the task of no other document, and a record
\* once made stays
OthersUntouched ==
    (batch.pc = "processing" /\ batch'.pc = "processing") =>
        /\ Cardinality({i \in TaskIds : batch'.tasks[i] # batch.tasks[i]}) <= 1
        /\ \A i \in TaskIds :
               batch.tasks[i].pc = "done" => batch'.tasks[i] = batch.tasks[i]

\* C21 as stated: every failure of a document (validation, corrupt PDF,
\* rasterization, OCR, naming) becomes the error record of that document;
\* it never fails the request and never changes the record of another
\* document, and every document gets a record of its own.
PropC21Stated ==
    [][/\ BatchSurvives'
       /\ OthersUntouched
       /\ \A i \in DOMAIN batch'.tasks :
              (/\ batch'.tasks[i].pc = "done"
               /\ batch'.tasks[i].cause \in DocumentFailures) =>
                  batch'.tasks[i].record.status = "error"]_vars

\* what a failure of a document makes of its record
RecordAfter(cause) ==
    CASE cause = "validation" -> [status |-> "error", error_type |-> "validation"]
      [] cause \in {"corrupt", "rasterize", "ocr_sample"} ->
             [status |-> "error", error_type |-> "processing"]
      [] OTHER -> [status |-> "success", error_type |-> "none"]

\* C21, amended: a validation failure, a corrupt PDF, a failed
\* rasterization and a failed sample OCR call become the error record of
\* the document; a failed page of the full pass and a naming failure are
\* absorbed, the document gets a success record (with the fallback name
\* after a naming failure); no failure fails the request or changes the
\* record of another document, and every document gets a record of its own.
PropC21 ==
    [][/\ BatchSurvives'
       /\ OthersUntouched
       /\ \A i \in DOMAIN batch'.tasks :
              batch'.tasks[i].pc = "done" =>
                  LET r == batch'.tasks[i].record
                  IN  /\ r.status = RecordAfter(r.cause).status
                      /\ r.error_type = RecordAfter(r.cause).error_type
                      /\ r.cause = batch'.tasks[i].cause
                      /\ r.fallback <=> r.cause = "naming"]_vars

\* A request of three documents was answered: the first could not be
\* rasterized, the second was named by the fallback, the third went well.
WitC21 ==
    /\ batch.pc = "responded"
    /\ Len(batch.tasks) = 3
    /\ batch.tasks[1].record.cause = "rasterize"
    /\ batch.tasks[1].record.status = "error"
    /\ batch.tasks[2].record.cause = "naming"
    /\ batch.tasks[2].record.status = "success"
    /\ batch.tasks[3].record.cause = "none"
    /\ batch.tasks[3].record.status = "success"

\* the events of one type
EventsOf(type) == SelectSeq(batch.events, LAMBDA e : e.type = type)

\* the events sent so far are a beginning of: 'started', one 'result' per
\* document in the order the documents finished, 'completed'
EventOrder ==
    LET ev == batch.events
        n == Len(batch.files)
    IN  /\ Len(ev) <= n + 2
        /\ \A k \in 1..Len(ev) :
               /\ ev[k].type = "started" <=> k = 1
               /\ ev[k].type = "completed" <=> k = n + 2
               /\ ev[k].type = "result" <=> (1 < k /\ k < n + 2)
               /\ ev[k].type = "result" =>
                      /\ k - 1 <= Len(batch.order)
                      /\ batch.tasks[batch.order[k - 1]].pc = "done"
                      /\ ev[k].data = batch.tasks[batch.order[k - 1]].record
                      /\ ev[k].data.file = batch.order[k - 1]
        /\ \A j, k \in 1..Len(ev) :
               (j # k /\ ev[j].type = "result" /\ ev[k].type = "result") =>
                   ev[j].data.file # ev[k].data.file
        /\ (batch.kind = "stream" /\ batch.pc = "responded") =>
               /\ Len(ev) = n + 2
               /\ Len(EventsOf("result")) = n

\* an accepted streaming request whose 'completed' event is not yet sent
Streaming == batch.kind = "stream" /\ batch.pc \in {"accepted", "processing"}

\* the 'completed' event has been sent
Completed == batch.kind = "stream" /\ batch.pc = "responded"

InvC23 ==
    batch.kind = "batch" =>
        /\ batch.pc # "responded" => batch.answer = NoAnswer
        /\ batch.pc = "responded" =>
               LET a == batch.answer
                   n == Len(batch.files)
               IN  /\ \A i \in 1..n : batch.tasks[i].pc = "done"
                   /\ Len(a.results) = n
                   /\ \A i \in 1..n :
                          /\ a.results[i].file = i
                          /\ a.results[i].original_filename = batch.files[i]
                          /\ a.results[i] = batch.tasks[i].record
                   /\ a.total = n
                   /\ a.total = a.successful + a.failed
                   /\ a.successful =
                          Cardinality({i \in 1..n : a.results[i].status = "success"})
                   /\ a.failed =
                          Cardinality({i \in 1..n : a.results[i].status = "error"})

\* A batch of three documents that finished in the reverse of their order
\* is answered with one success and two errors.
WitC23 ==
    /\ batch.kind = "batch"
    /\ batch.pc = "responded"
    /\ batch.order = <<3, 2, 1>>
    /\ batch.answer.total = 3
    /\ batch.answer.successful = 1
    /\ batch.answer.failed = 2

\* the finished documents that were named by the fallback
FallbackNamed ==
    {i \in TaskIds : batch.tasks[i].pc = "done" /\ batch.tasks[i].record.fallback}

\* C25: the fallback name is the sanitized stem of the original file name,
\* an underscore and the timestamp, and two fallback names of two
\* different generate_filename calls differ, also when the two documents
\* have the same file name and are processed in the same request.
InvC25 ==
    /\ \A i \in FallbackNamed :
           \E t \in 0..MaxTime :
               batch.tasks[i].record.new_filename =
                   CleanFilename(Stem(batch.files[i])) \o <<"_">> \o Stamp(t)
                       \o <<".">> \o ExtensionOf(batch.files[i])
    /\ \A i, j \in FallbackNamed :
           i # j => batch.tasks[i].record.new_filename
                        # batch.tasks[j].record.new_filename

\* the first half of C25 alone, and that fallback names of different
\* clock readings or of different stems differ
FormC25 ==
    \A i, j \in FallbackNamed :
        /\ \E t \in 0..MaxTime :
               batch.tasks[i].record.new_filename =
                   CleanFilename(Stem(batch.files[i])) \o <<"_">> \o Stamp(t)
                       \o <<".">> \o ExtensionOf(batch.files[i])
        /\ batch.files[i] # batch.files[j] =>
               batch.tasks[i].record.new_filename
                   # batch.tasks[j].record.new_filename

====
